---- MODULE Spec2Model ----
(***************************************************************************)
(* The session state machine of src/App.svelte (an N-back game with a      *)
(* perspective-taking twist): stimulus generation, turn sequencing, the    *)
(* two timer lines, judgment and scoring, and N-back level progression.    *)
(*                                                                         *)
(* Every function of the script that reads or writes the module-level      *)
(* state is an operator from a state record to a state record, named as in *)
(* the source; an action applies one handler to the current state.  The    *)
(* outcomes of Math.random() and the times read from Date.now() are the    *)
(* environment's choices, drawn with \E from the sets of a profile.        *)
(***************************************************************************)
EXTENDS Integers, Sequences, FiniteSets

VARIABLES
  \* configuration
  activeRules, perspectiveMode, perspectiveType, spatialType,
  distractorsEnabled, controlSwapEnabled, useTimer, gameDurationSeconds,
  autoProgress,
  \* session
  isPlaying, score, nBack, blockTurnCount, blockMistakes, totalMistakes,
  totalTurns, lastStroopText, hasResponded, isSwapped, perspectiveMapping,
  currentRule, stimulusHistory, currentStimulus, timeLeftSeconds,
  \* handles held by the script, and the scheduler's live callbacks
  timer, gameTimerInterval, timeouts, intervals,
  \* the environment: the clock and the persisted history log
  now, savedHistory,
  \* the locals of a call of generateCyclicMapping stepped through its loop
  mappingCall

vars == <<activeRules, perspectiveMode, perspectiveType, spatialType,
          distractorsEnabled, controlSwapEnabled, useTimer,
          gameDurationSeconds, autoProgress, isPlaying, score, nBack,
          blockTurnCount, blockMistakes, totalMistakes, totalTurns,
          lastStroopText, hasResponded, isSwapped, perspectiveMapping,
          currentRule, stimulusHistory, currentStimulus, timeLeftSeconds,
          timer, gameTimerInterval, timeouts, intervals, now, savedHistory,
          mappingCall>>

(***************************************************************************)
(* Game constants                                                          *)
(***************************************************************************)
ALL_ATTRIBUTES == <<"color", "shape", "size", "position">>
COLORS == <<"red", "blue", "green">>
SHAPES == <<"cube", "sphere", "tetrahedron">>
SIZES == <<"small", "medium", "large">>
POSITIONS == <<"left", "center", "right">>
STROOP_WORDS == <<"RED", "BLUE", "GREEN">>

INTERVAL_MS == 3500
BLOCK_SIZE == 20
\* the delay of the timer a response arms
RESPONSE_DELAY_MS == 500
\* the period of the countdown interval
TICK_MS == 1000
\* the most records the persisted history log holds
HISTORY_CAP == 20
\* the shortest duration the duration inputs accept, in seconds
MinDuration == 10

Range(f) == {f[i] : i \in DOMAIN f}

Min(a, b) == IF a < b THEN a ELSE b
Max(a, b) == IF a > b THEN a ELSE b

\* undefined / null
Undefined == 0
\* the mapping object {} : no attribute has a mapping
NoMapping == [a \in {} |-> a]

(***************************************************************************)
(* Bounds of the model                                                     *)
(***************************************************************************)
\* turns of one session in the session specification
MaxTurns == 4
\* turns of one session in the level specification
MaxLevelTurns == 4
\* the highest level the level buttons raise to in the level specification
MaxManualLevel == 1
\* turns of one session in the timed specification
MaxTimedTurns == 5
\* records of the history log in the timed specification
MaxTimedSaved == 2
\* sessions logged after mount in the log specification
MaxLogSessions == 2
\* turns of one session in the judgment specification
MaxJudgeTurns == 3
\* turns of one session in the scoring specification
MaxScoreTurns == 3
\* turns of one session in the block-progression specification
MaxBlockTurns == 41
\* timed sessions that may end by timeout before no further session starts
MaxSaved == 1
\* the highest level the level buttons raise nBack to
MaxLevel == 2
\* the longest domain generateCyclicMapping is called with
MaxDomain == 3
\* turns of one session in the perspective specification
MaxPerspectiveTurns == 2
\* turns of one session in the progression specification
MaxProgressTurns == 22
\* turns of a session of the symbolic specification
MaxSymbolicTurns == 4
\* turns of a session of the control-swap specification
MaxSwapTurns == 3
\* turns of a session of the rule specification
MaxRuleTurns == 2
\* turns of a session, and sessions saved, in the termination specification
MaxLiveTurns == 5
MaxLiveSaved == 2

(***************************************************************************)
(* Perspective logic                                                       *)
(***************************************************************************)
\* The permutations of 1..n as index tuples: the outcomes of
\* [...values].sort(() => Math.random() - 0.5).
Shuffles(n) ==
  {p \in [1..n -> 1..n] : \A i, j \in 1..n : p[i] = p[j] => i = j}

\* a mapping that leaves every value in place
generateCyclicMapping_Identity(values, shuffles) ==
  {[v \in Range(values) |-> v]}

\* generateCyclicMapping: the maps the shuffle-and-reject loop can return
\* when the shuffle draws its permutation from `shuffles`: the loop exits
\* with the first shuffle that leaves no value in place.
generateCyclicMapping(values, shuffles) ==
  {[v \in Range(values) |->
      LET i == CHOOSE k \in DOMAIN values : values[k] = v IN values[p[i]]] :
     p \in {q \in shuffles \cap Shuffles(Len(values)) :
              \A i \in DOMAIN values : values[i] # values[q[i]]}}


\* The same function stepped through its loop.  The locals of a call, as
\* the call is entered: shuffled is a copy of values and isValid is false.
enterCall(values) ==
  [values |-> values, shuffled |-> values, isValid |-> FALSE,
   pc |-> "loop", map |-> NoMapping]

\* no call is in progress
NoCall ==
  [values |-> <<>>, shuffled |-> <<>>, isValid |-> FALSE, pc |-> "none",
   map |-> NoMapping]

\* an iteration that never sets isValid
loopIteration_NeverValid(c, p) ==
  [c EXCEPT !.shuffled = [i \in DOMAIN c.values |-> c.values[p[i]]],
            !.isValid = FALSE]

\* an iteration that accepts every shuffle
loopIteration_Accepting(c, p) ==
  [c EXCEPT !.shuffled = [i \in DOMAIN c.values |-> c.values[p[i]]],
            !.isValid = TRUE]

\* one iteration of the while loop, the sort producing the arrangement p:
\* isValid is set, and cleared at the first value left in its place
loopIteration(c, p) ==
  LET shuffled == [i \in DOMAIN c.values |-> c.values[p[i]]]
  IN [c EXCEPT !.shuffled = shuffled,
               !.isValid = \A i \in DOMAIN c.values :
                              c.values[i] # shuffled[i]]

\* the statements after the loop: map[values[i]] = shuffled[i] for every i
\* in turn, and the return
returnMap(c) ==
  [c EXCEPT
     !.map = [v \in Range(c.values) |->
                LET i == CHOOSE k \in DOMAIN c.values :
                           /\ c.values[k] = v
                           /\ \A j \in DOMAIN c.values :
                                j > k => c.values[j] # v
                IN c.shuffled[i]],
     !.pc = "returned"]

\* scramblePerspectiveRules: one mapping per attribute domain
scramblePerspectiveRules(shuffles) ==
  {[color |-> c, shape |-> sh, size |-> sz, position |-> po] :
     c \in generateCyclicMapping(COLORS, shuffles),
     sh \in generateCyclicMapping(SHAPES, shuffles),
     sz \in generateCyclicMapping(SIZES, shuffles),
     po \in generateCyclicMapping(POSITIONS, shuffles)}


\* a transform that applies the symbolic mapping for either observer
getTransformedValue_IgnoringObserver(s, stim, rule) ==
  IF ~s.perspectiveMode THEN stim[rule]
  ELSE IF s.perspectiveType = "symbolic"
          /\ rule \in DOMAIN s.perspectiveMapping
       THEN s.perspectiveMapping[rule][stim[rule]]
       ELSE stim[rule]

\* a transform that applies the symbolic mapping twice
getTransformedValue_MappingTwice(s, stim, rule) ==
  IF s.perspectiveMode /\ s.perspectiveType = "symbolic"
     /\ stim.observerPos # "me" /\ rule \in DOMAIN s.perspectiveMapping
  THEN s.perspectiveMapping[rule][s.perspectiveMapping[rule][stim[rule]]]
  ELSE stim[rule]

\* a spatial transform that mirrors the centre to the right
getTransformedValue_MirroringCentre(s, stim, rule) ==
  IF s.perspectiveMode /\ s.perspectiveType = "spatial"
     /\ stim.observerPos # "me"
  THEN IF rule = "position"
       THEN (IF stim.position = "right" THEN "left" ELSE "right")
       ELSE IF rule = "color" THEN stim.backColor ELSE stim[rule]
  ELSE stim[rule]

\* getTransformedValue(stim, rule) in state s
getTransformedValue(s, stim, rule) ==
  IF ~s.perspectiveMode THEN stim[rule]
  ELSE IF s.perspectiveType = "symbolic" THEN
    IF stim.observerPos = "me" THEN stim[rule]
    ELSE IF rule \in DOMAIN s.perspectiveMapping
         THEN s.perspectiveMapping[rule][stim[rule]]
         ELSE stim[rule]
  ELSE IF s.perspectiveType = "spatial" THEN
    IF stim.observerPos = "me" THEN stim[rule]
    ELSE IF rule = "position" THEN
      IF stim.position = "left" THEN "right"
      ELSE IF stim.position = "right" THEN "left"
      ELSE "center"
    ELSE IF rule = "color" THEN stim.backColor
    ELSE stim[rule]
  ELSE stim[rule]

\* an object transform that returns the front colour
getTransformedValueObject_FrontColour(s, stim, rule) == stim[rule]

\* The transform under the spatial match strategy "object" of the second
\* variant of the game, as the specification describes it: the colour is an
\* order-independent signature of the pair of front and back colour, for
\* either observer, and the position is not transformed.  Elsewhere the
\* transform is getTransformedValue.
getTransformedValueObject(s, stim, rule) ==
  IF s.perspectiveMode /\ s.perspectiveType = "spatial"
  THEN IF rule = "color" THEN {stim.color, stim.backColor} ELSE stim[rule]
  ELSE getTransformedValue(s, stim, rule)

(***************************************************************************)
(* Stimulus generation                                                     *)
(***************************************************************************)
\* A profile P gives, for every random draw of the script, the outcomes the
\* environment produces: P.colors for a colour draw, P.nets for a free face
\* of the cube net, P.shapes/P.sizes/P.positions for an attribute that
\* varies, P.cutouts for the cutout shape, P.observers for the observer,
\* P.words and P.inks for the Stroop channel, P.swaps for the control swap,
\* P.shuffles for the shuffle of a mapping, and P.rts for the reaction
\* times a response is given at.

\* a generation that keeps the first back colour drawn
generateStimulus_KeepingBack(s, P) ==
  LET spatial == s.perspectiveMode /\ s.perspectiveType = "spatial"
      varyShape == "shape" \in s.activeRules \/ s.distractorsEnabled
      varySize == "size" \in s.activeRules \/ s.distractorsEnabled
      varyPos == "position" \in s.activeRules \/ s.distractorsEnabled
      shapes0 == IF varyShape THEN Range(SHAPES) \cap P.shapes ELSE {"cube"}
      shapes1 == IF spatial
                 THEN IF s.spatialType = "cutout"
                      THEN {"cube", "sphere"} \cap P.cutouts
                      ELSE {"cube"}
                 ELSE shapes0
      shapes2 == IF spatial /\ "color" \in s.activeRules
                    /\ s.spatialType \in {"rotation", "folding", "instant"}
                 THEN {"cube"}
                 ELSE shapes1
      sizes == IF varySize THEN Range(SIZES) \cap P.sizes ELSE {"medium"}
      positions == IF varyPos THEN Range(POSITIONS) \cap P.positions
                   ELSE {"center"}
      first == Range(STROOP_WORDS) \cap P.words
      \* one resample when the first word repeats the last one
      words == (first \ {s.lastStroopText})
                 \cup (IF s.lastStroopText \in first THEN first ELSE {})
  IN {st \in
        {[color |-> c, backColor |-> b,
          netColors |-> [i \in 1..6 |->
                           IF i = 3 THEN c ELSE IF i = 6 THEN b ELSE n[i]],
          shape |-> sh, size |-> sz, position |-> po, id |-> s.now,
          stroopText |-> w, stroopInk |-> k, observerPos |-> o] :
           c \in Range(COLORS) \cap P.colors,
           b \in Range(COLORS) \cap P.backs,
           n \in [{1, 2, 4, 5} -> Range(COLORS) \cap P.nets],
           sh \in shapes2, sz \in sizes, po \in positions,
           w \in words, k \in Range(COLORS) \cap P.inks,
           o \in {"me", "opposite"} \cap P.observers} :
        TRUE}

\* generateStimulus: the stimuli one call can return in state s at time
\* s.now \* (it also stores the returned stroopText in lastStroopText).
generateStimulus(s, P) ==
  LET spatial == s.perspectiveMode /\ s.perspectiveType = "spatial"
      varyShape == "shape" \in s.activeRules \/ s.distractorsEnabled
      varySize == "size" \in s.activeRules \/ s.distractorsEnabled
      varyPos == "position" \in s.activeRules \/ s.distractorsEnabled
      shapes0 == IF varyShape THEN Range(SHAPES) \cap P.shapes ELSE {"cube"}
      shapes1 == IF spatial
                 THEN IF s.spatialType = "cutout"
                      THEN {"cube", "sphere"} \cap P.cutouts
                      ELSE {"cube"}
                 ELSE shapes0
      shapes2 == IF spatial /\ "color" \in s.activeRules
                    /\ s.spatialType \in {"rotation", "folding", "instant"}
                 THEN {"cube"}
                 ELSE shapes1
      sizes == IF varySize THEN Range(SIZES) \cap P.sizes ELSE {"medium"}
      positions == IF varyPos THEN Range(POSITIONS) \cap P.positions
                   ELSE {"center"}
      first == Range(STROOP_WORDS) \cap P.words
      \* one resample when the first word repeats the last one
      words == (first \ {s.lastStroopText})
                 \cup (IF s.lastStroopText \in first THEN first ELSE {})
  IN {st \in
        {[color |-> c, backColor |-> b,
          netColors |-> [i \in 1..6 |->
                           IF i = 3 THEN c ELSE IF i = 6 THEN b ELSE n[i]],
          shape |-> sh, size |-> sz, position |-> po, id |-> s.now,
          stroopText |-> w, stroopInk |-> k, observerPos |-> o] :
           c \in Range(COLORS) \cap P.colors,
           b \in Range(COLORS) \cap P.backs,
           n \in [{1, 2, 4, 5} -> Range(COLORS) \cap P.nets],
           sh \in shapes2, sz \in sizes, po \in positions,
           w \in words, k \in Range(COLORS) \cap P.inks,
           o \in {"me", "opposite"} \cap P.observers} :
        \* backColor is redrawn until it differs from color
        st.backColor # st.color}

(***************************************************************************)
(* The state record and the scheduler                                      *)
(***************************************************************************)
\* the current state as a record
Cur ==
  [activeRules |-> activeRules, perspectiveMode |-> perspectiveMode,
   perspectiveType |-> perspectiveType, spatialType |-> spatialType,
   distractorsEnabled |-> distractorsEnabled,
   controlSwapEnabled |-> controlSwapEnabled, useTimer |-> useTimer,
   gameDurationSeconds |-> gameDurationSeconds,
   autoProgress |-> autoProgress, isPlaying |-> isPlaying, score |-> score,
   nBack |-> nBack, blockTurnCount |-> blockTurnCount,
   blockMistakes |-> blockMistakes, totalMistakes |-> totalMistakes,
   totalTurns |-> totalTurns, lastStroopText |-> lastStroopText,
   hasResponded |-> hasResponded, isSwapped |-> isSwapped,
   perspectiveMapping |-> perspectiveMapping, currentRule |-> currentRule,
   stimulusHistory |-> stimulusHistory, currentStimulus |-> currentStimulus,
   timeLeftSeconds |-> timeLeftSeconds, timer |-> timer,
   gameTimerInterval |-> gameTimerInterval, timeouts |-> timeouts,
   intervals |-> intervals, now |-> now, savedHistory |-> savedHistory,
   mappingCall |-> mappingCall]

\* the next state is the record r
Becomes(r) ==
  /\ activeRules' = r.activeRules
  /\ perspectiveMode' = r.perspectiveMode
  /\ perspectiveType' = r.perspectiveType
  /\ spatialType' = r.spatialType
  /\ distractorsEnabled' = r.distractorsEnabled
  /\ controlSwapEnabled' = r.controlSwapEnabled
  /\ useTimer' = r.useTimer
  /\ gameDurationSeconds' = r.gameDurationSeconds
  /\ autoProgress' = r.autoProgress
  /\ isPlaying' = r.isPlaying
  /\ score' = r.score
  /\ nBack' = r.nBack
  /\ blockTurnCount' = r.blockTurnCount
  /\ blockMistakes' = r.blockMistakes
  /\ totalMistakes' = r.totalMistakes
  /\ totalTurns' = r.totalTurns
  /\ lastStroopText' = r.lastStroopText
  /\ hasResponded' = r.hasResponded
  /\ isSwapped' = r.isSwapped
  /\ perspectiveMapping' = r.perspectiveMapping
  /\ currentRule' = r.currentRule
  /\ stimulusHistory' = r.stimulusHistory
  /\ currentStimulus' = r.currentStimulus
  /\ timeLeftSeconds' = r.timeLeftSeconds
  /\ timer' = r.timer
  /\ gameTimerInterval' = r.gameTimerInterval
  /\ timeouts' = r.timeouts
  /\ intervals' = r.intervals
  /\ now' = r.now
  /\ savedHistory' = r.savedHistory
  /\ mappingCall' = r.mappingCall

\* The handles of the callbacks the scheduler still holds.  setTimeout and
\* setInterval draw their handles from one pool, and clearTimeout and
\* clearInterval cancel a handle of either kind.
LiveHandles(s) == {x.id : x \in s.timeouts \cup s.intervals}

\* A handle for a new callback: a positive number that is neither live nor
\* in `held`.  (The scheduler never reuses a handle; a handle that is not
\* live and that no variable holds is never seen again, so the least such
\* number stands for the new one.)
FreshHandle(s, held) ==
  LET used == LiveHandles(s) \cup held
  IN CHOOSE h \in 1..(Cardinality(used) + 1) :
       h \notin used /\ \A g \in 1..(h - 1) : g \in used

\* clearTimeout(h) / clearInterval(h)
clearTimeout(s, h) ==
  [s EXCEPT !.timeouts = {x \in @ : x.id # h},
            !.intervals = {x \in @ : x.id # h}]

\* timer = setTimeout(nextTurn, delay)
setTimeout(s, delay) ==
  LET h == FreshHandle(s, {s.gameTimerInterval})
  IN [s EXCEPT !.timer = h,
               !.timeouts = @ \cup {[id |-> h, delay |-> delay,
                                     due |-> s.now + delay]}]

(***************************************************************************)
(* Progression, turns and timers                                           *)
(***************************************************************************)
\* ((turns - mistakes) / turns) * 100 >= pct, for turns > 0.  The quotient
\* is a double; it is compared with 80 and 50 only, and the products with
\* 100 of the doubles nearest 4/5 and 1/2 are exactly 80 and 50, so the
\* comparison is the one of the exact fractions.
AccuracyAtLeast(turns, mistakes, pct) ==
  (turns - mistakes) * 100 >= pct * turns

\* Math.round(((turns - mistakes) / turns) * 100), for turns > 0
RoundedAccuracy(turns, mistakes) ==
  (200 * (turns - mistakes) + turns) \div (2 * turns)


\* a block check that runs in timed sessions too
checkProgression_IgnoringTimer(s) ==
  IF ~s.autoProgress \/ s.blockTurnCount < BLOCK_SIZE THEN s
  ELSE [s EXCEPT
          !.nBack =
            IF AccuracyAtLeast(s.blockTurnCount, s.blockMistakes, 80)
            THEN @ + 1
            ELSE IF ~AccuracyAtLeast(s.blockTurnCount, s.blockMistakes, 50)
                    /\ s.nBack > 1
                 THEN @ - 1
                 ELSE @,
          !.blockTurnCount = 0,
          !.blockMistakes = 0]


\* a block check that resets the counters of a full block in every
\* configuration
checkProgression_ResettingAlways(s) ==
  IF s.blockTurnCount < BLOCK_SIZE THEN s
  ELSE [s EXCEPT
          !.nBack =
            IF ~s.autoProgress \/ s.useTimer THEN @
            ELSE IF AccuracyAtLeast(s.blockTurnCount, s.blockMistakes, 80)
            THEN @ + 1
            ELSE IF ~AccuracyAtLeast(s.blockTurnCount, s.blockMistakes, 50)
                    /\ s.nBack > 1
                 THEN @ - 1
                 ELSE @,
          !.blockTurnCount = 0,
          !.blockMistakes = 0]

\* a block check that raises the level at 90% only
checkProgression_Strict(s) ==
  IF ~s.autoProgress \/ s.blockTurnCount < BLOCK_SIZE \/ s.useTimer THEN s
  ELSE [s EXCEPT
          !.nBack =
            IF AccuracyAtLeast(s.blockTurnCount, s.blockMistakes, 90)
            THEN @ + 1
            ELSE IF ~AccuracyAtLeast(s.blockTurnCount, s.blockMistakes, 50)
                    /\ s.nBack > 1
                 THEN @ - 1
                 ELSE @,
          !.blockTurnCount = 0,
          !.blockMistakes = 0]

\* a block check that lowers the level below 40% only
checkProgression_Lenient(s) ==
  IF ~s.autoProgress \/ s.blockTurnCount < BLOCK_SIZE \/ s.useTimer THEN s
  ELSE [s EXCEPT
          !.nBack =
            IF AccuracyAtLeast(s.blockTurnCount, s.blockMistakes, 80)
            THEN @ + 1
            ELSE IF ~AccuracyAtLeast(s.blockTurnCount, s.blockMistakes, 40)
                    /\ s.nBack > 1
                 THEN @ - 1
                 ELSE @,
          !.blockTurnCount = 0,
          !.blockMistakes = 0]

\* a block check that lowers the level without looking at it
checkProgression_NoFloor(s) ==
  IF ~s.autoProgress \/ s.blockTurnCount < BLOCK_SIZE \/ s.useTimer THEN s
  ELSE [s EXCEPT
          !.nBack =
            IF AccuracyAtLeast(s.blockTurnCount, s.blockMistakes, 80)
            THEN @ + 1
            ELSE IF ~AccuracyAtLeast(s.blockTurnCount, s.blockMistakes, 50)
                 THEN @ - 1
                 ELSE @,
          !.blockTurnCount = 0,
          !.blockMistakes = 0]

checkProgression(s) ==
  IF ~s.autoProgress \/ s.blockTurnCount < BLOCK_SIZE \/ s.useTimer THEN s
  ELSE [s EXCEPT
          !.nBack =
            IF AccuracyAtLeast(s.blockTurnCount, s.blockMistakes, 80)
            THEN @ + 1
            ELSE IF ~AccuracyAtLeast(s.blockTurnCount, s.blockMistakes, 50)
                    /\ s.nBack > 1
                 THEN @ - 1
                 ELSE @,
          !.blockTurnCount = 0,
          !.blockMistakes = 0]

\* charges a miss even when the turn was answered
checkMissedTarget_IgnoringResponse(s) ==
  IF Len(s.stimulusHistory) > s.nBack
  THEN [s EXCEPT !.score = @ - 5,
                 !.totalMistakes = @ + 1,
                 !.blockMistakes = @ + 1]
  ELSE s

checkMissedTarget(s) ==
  IF Len(s.stimulusHistory) > s.nBack /\ ~s.hasResponded
  THEN [s EXCEPT !.score = @ - 5,
                 !.totalMistakes = @ + 1,
                 !.blockMistakes = @ + 1]
  ELSE s

startTimer(s) ==
  LET s1 == IF s.gameTimerInterval # Undefined
            THEN clearTimeout(s, s.gameTimerInterval)
            ELSE s
      h == FreshHandle(s1, {s1.timer})
  IN [s1 EXCEPT !.timeLeftSeconds = s1.gameDurationSeconds,
                !.gameTimerInterval = h,
                !.intervals = @ \cup {[id |-> h, due |-> s1.now + TICK_MS]}]


\* a turn advance that does not arm the timer of the next one
nextTurn_NotRearming(s, swap, rule, stim) ==
  IF ~s.isPlaying THEN s
  ELSE
    LET s1 == checkMissedTarget(s)
        s2 == checkProgression(s1)
        s3 == [s2 EXCEPT
                 !.isSwapped = IF s2.controlSwapEnabled THEN swap ELSE FALSE,
                 !.currentRule = rule,
                 !.lastStroopText = stim.stroopText,
                 !.stimulusHistory = Append(@, stim),
                 !.currentStimulus = stim]
        s4 == IF s3.useTimer /\ s3.gameTimerInterval = Undefined
                 /\ Len(s3.stimulusHistory) > s3.nBack
              THEN startTimer(s3)
              ELSE s3
        s5 == [s4 EXCEPT !.totalTurns = @ + 1,
                         !.blockTurnCount = @ + 1,
                         !.hasResponded = FALSE]
    IN IF s5.timer # Undefined THEN clearTimeout(s5, s5.timer) ELSE s5

\* a turn advance that arms the countdown although one is running
nextTurn_Rearming(s, swap, rule, stim) ==
  IF ~s.isPlaying THEN s
  ELSE
    LET s1 == checkMissedTarget(s)
        s2 == checkProgression(s1)
        s3 == [s2 EXCEPT
                 !.isSwapped = IF s2.controlSwapEnabled THEN swap ELSE FALSE,
                 !.currentRule = rule,
                 !.lastStroopText = stim.stroopText,
                 !.stimulusHistory = Append(@, stim),
                 !.currentStimulus = stim]
        s4 == IF s3.useTimer /\ Len(s3.stimulusHistory) > s3.nBack
              THEN startTimer(s3)
              ELSE s3
        s5 == [s4 EXCEPT !.totalTurns = @ + 1,
                         !.blockTurnCount = @ + 1,
                         !.hasResponded = FALSE]
        s6 == IF s5.timer # Undefined THEN clearTimeout(s5, s5.timer) ELSE s5
    IN setTimeout(s6, INTERVAL_MS)

\* nextTurn, with the outcomes of its random draws: the control swap, the
\* rule under test and the stimulus
nextTurn(s, swap, rule, stim) ==
  IF ~s.isPlaying THEN s
  ELSE
    LET s1 == checkMissedTarget(s)
        s2 == checkProgression(s1)
        s3 == [s2 EXCEPT
                 !.isSwapped = IF s2.controlSwapEnabled THEN swap ELSE FALSE,
                 !.currentRule = rule,
                 !.lastStroopText = stim.stroopText,
                 !.stimulusHistory = Append(@, stim),
                 !.currentStimulus = stim]
        s4 == IF s3.useTimer /\ s3.gameTimerInterval = Undefined
                 /\ Len(s3.stimulusHistory) > s3.nBack
              THEN startTimer(s3)
              ELSE s3
        s5 == [s4 EXCEPT !.totalTurns = @ + 1,
                         !.blockTurnCount = @ + 1,
                         !.hasResponded = FALSE]
        s6 == IF s5.timer # Undefined THEN clearTimeout(s5, s5.timer) ELSE s5
    IN setTimeout(s6, INTERVAL_MS)


\* a log that drops the new record when it is full
saveHistory_EvictingNewest(s) ==
  IF s.totalTurns = 0 THEN s
  ELSE
    LET entry == [score |-> s.score,
                  accuracy |-> RoundedAccuracy(s.totalTurns, s.totalMistakes),
                  maxNBack |-> s.nBack,
                  perspectiveMode |-> s.perspectiveMode,
                  perspectiveType |-> s.perspectiveType,
                  activeRules |-> s.activeRules]
        existing == Append(s.savedHistory, entry)
    IN [s EXCEPT !.savedHistory =
                   IF Len(existing) > HISTORY_CAP
                   THEN SubSeq(existing, 1, HISTORY_CAP)
                   ELSE existing]

saveHistory(s) ==
  IF s.totalTurns = 0 THEN s
  ELSE
    LET entry == [score |-> s.score,
                  accuracy |-> RoundedAccuracy(s.totalTurns, s.totalMistakes),
                  maxNBack |-> s.nBack,
                  perspectiveMode |-> s.perspectiveMode,
                  perspectiveType |-> s.perspectiveType,
                  activeRules |-> s.activeRules]
        existing == Append(s.savedHistory, entry)
    IN [s EXCEPT !.savedHistory =
                   IF Len(existing) > HISTORY_CAP THEN Tail(existing)
                   ELSE existing]


\* an end that saves the record before the level is changed
endGame_SavingFirst(s, timedOut) ==
  LET s1 == clearTimeout([s EXCEPT !.isPlaying = FALSE], s.timer)
      s2 == IF s1.gameTimerInterval # Undefined
            THEN clearTimeout(s1, s1.gameTimerInterval)
            ELSE s1
      s3 == [s2 EXCEPT !.gameTimerInterval = Undefined]
      s4 == IF timedOut THEN saveHistory(s3) ELSE s3
      isSuccess == s4.totalTurns > 0
                   /\ AccuracyAtLeast(s4.totalTurns, s4.totalMistakes, 80)
  IN IF timedOut /\ s4.autoProgress /\ s4.totalTurns > 0
     THEN IF isSuccess THEN [s4 EXCEPT !.nBack = @ + 1]
          ELSE IF s4.nBack > 1
                  /\ ~AccuracyAtLeast(s4.totalTurns, s4.totalMistakes, 50)
               THEN [s4 EXCEPT !.nBack = @ - 1]
               ELSE s4
     ELSE s4

\* an end that first charges the turn in progress as missed
endGame_ChargingMiss(s, timedOut) ==
  LET s0 == checkMissedTarget(s)
      s1 == clearTimeout([s0 EXCEPT !.isPlaying = FALSE], s0.timer)
      s2 == IF s1.gameTimerInterval # Undefined
            THEN clearTimeout(s1, s1.gameTimerInterval)
            ELSE s1
      s3 == [s2 EXCEPT !.gameTimerInterval = Undefined]
      isSuccess == s3.totalTurns > 0
                   /\ AccuracyAtLeast(s3.totalTurns, s3.totalMistakes, 80)
      s4 == IF timedOut /\ s3.autoProgress /\ s3.totalTurns > 0
            THEN IF isSuccess THEN [s3 EXCEPT !.nBack = @ + 1]
                 ELSE IF s3.nBack > 1
                         /\ ~AccuracyAtLeast(s3.totalTurns,
                                             s3.totalMistakes, 50)
                      THEN [s3 EXCEPT !.nBack = @ - 1]
                      ELSE s3
            ELSE s3
  IN IF timedOut THEN saveHistory(s4) ELSE s4

\* an end of game that leaves the turn timer armed
endGame_KeepingTurnTimer(s, timedOut) ==
  LET s1 == [s EXCEPT !.isPlaying = FALSE]
      s2 == IF s1.gameTimerInterval # Undefined
            THEN clearTimeout(s1, s1.gameTimerInterval)
            ELSE s1
      s3 == [s2 EXCEPT !.gameTimerInterval = Undefined]
      isSuccess == s3.totalTurns > 0
                   /\ AccuracyAtLeast(s3.totalTurns, s3.totalMistakes, 80)
      s4 == IF timedOut /\ s3.autoProgress /\ s3.totalTurns > 0
            THEN IF isSuccess THEN [s3 EXCEPT !.nBack = @ + 1]
                 ELSE IF s3.nBack > 1
                         /\ ~AccuracyAtLeast(s3.totalTurns,
                                             s3.totalMistakes, 50)
                      THEN [s3 EXCEPT !.nBack = @ - 1]
                      ELSE s3
            ELSE s3
  IN IF timedOut THEN saveHistory(s4) ELSE s4


\* an end of game that raises the level at 75% already
endGame_RaisingAt75(s, timedOut) ==
  LET s1 == clearTimeout([s EXCEPT !.isPlaying = FALSE], s.timer)
      s2 == IF s1.gameTimerInterval # Undefined
            THEN clearTimeout(s1, s1.gameTimerInterval)
            ELSE s1
      s3 == [s2 EXCEPT !.gameTimerInterval = Undefined]
      isSuccess == s3.totalTurns > 0
                   /\ AccuracyAtLeast(s3.totalTurns, s3.totalMistakes, 75)
      s4 == IF timedOut /\ s3.autoProgress /\ s3.totalTurns > 0
            THEN IF isSuccess THEN [s3 EXCEPT !.nBack = @ + 1]
                 ELSE IF s3.nBack > 1
                         /\ ~AccuracyAtLeast(s3.totalTurns,
                                             s3.totalMistakes, 50)
                      THEN [s3 EXCEPT !.nBack = @ - 1]
                      ELSE s3
            ELSE s3
  IN IF timedOut THEN saveHistory(s4) ELSE s4

endGame(s, timedOut) ==
  LET s1 == clearTimeout([s EXCEPT !.isPlaying = FALSE], s.timer)
      s2 == IF s1.gameTimerInterval # Undefined
            THEN clearTimeout(s1, s1.gameTimerInterval)
            ELSE s1
      s3 == [s2 EXCEPT !.gameTimerInterval = Undefined]
      isSuccess == s3.totalTurns > 0
                   /\ AccuracyAtLeast(s3.totalTurns, s3.totalMistakes, 80)
      s4 == IF timedOut /\ s3.autoProgress /\ s3.totalTurns > 0
            THEN IF isSuccess THEN [s3 EXCEPT !.nBack = @ + 1]
                 ELSE IF s3.nBack > 1
                         /\ ~AccuracyAtLeast(s3.totalTurns,
                                             s3.totalMistakes, 50)
                      THEN [s3 EXCEPT !.nBack = @ - 1]
                      ELSE s3
            ELSE s3
  IN IF timedOut THEN saveHistory(s4) ELSE s4

\* the callback of the countdown interval
countdownTick(s) ==
  LET s1 == [s EXCEPT !.timeLeftSeconds = @ - 1]
  IN IF s1.timeLeftSeconds <= 0 THEN endGame(s1, TRUE) ELSE s1

\* the sanitising of the active rules under spatial perspective
sanitizeRules(s) ==
  IF s.perspectiveMode /\ s.perspectiveType = "spatial"
  THEN LET kept == s.activeRules \ {"shape", "size"}
       IN [s EXCEPT !.activeRules = IF kept = {} THEN {"color"} ELSE kept]
  ELSE s


\* a start that leaves the active rules as the settings dialog left them
startGame_NotSanitising(s, mapping, swap, rule, stim) ==
  IF s.activeRules = {} THEN s
  ELSE
    LET s2 == IF s.perspectiveMode
              THEN [s EXCEPT !.perspectiveMapping = mapping]
              ELSE s
        s3 == [s2 EXCEPT !.isPlaying = TRUE, !.score = 0,
                         !.totalMistakes = 0, !.blockMistakes = 0,
                         !.totalTurns = 0, !.blockTurnCount = 0,
                         !.stimulusHistory = <<>>,
                         !.hasResponded = FALSE]
        s4 == IF s3.gameTimerInterval # Undefined
              THEN clearTimeout(s3, s3.gameTimerInterval)
              ELSE s3
        s5 == [s4 EXCEPT !.gameTimerInterval = Undefined,
                         !.timeLeftSeconds = s4.gameDurationSeconds]
    IN nextTurn(s5, swap, rule, stim)

\* a start that keeps the score of the previous session
startGame_KeepingScore(s, mapping, swap, rule, stim) ==
  LET s1 == sanitizeRules(s)
  IN IF s1.activeRules = {} THEN s1
     ELSE
       LET s2 == IF s1.perspectiveMode
                 THEN [s1 EXCEPT !.perspectiveMapping = mapping]
                 ELSE s1
           s3 == [s2 EXCEPT !.isPlaying = TRUE,
                            !.totalMistakes = 0, !.blockMistakes = 0,
                            !.totalTurns = 0, !.blockTurnCount = 0,
                            !.stimulusHistory = <<>>,
                            !.hasResponded = FALSE]
           s4 == IF s3.gameTimerInterval # Undefined
                 THEN clearTimeout(s3, s3.gameTimerInterval)
                 ELSE s3
           s5 == [s4 EXCEPT !.gameTimerInterval = Undefined,
                            !.timeLeftSeconds = s4.gameDurationSeconds]
       IN nextTurn(s5, swap, rule, stim)

\* startGame, with the outcomes of its random draws: the mapping the
\* scramble builds and the draws of the first turn
startGame(s, mapping, swap, rule, stim) ==
  LET s1 == sanitizeRules(s)
  IN IF s1.activeRules = {} THEN s1
     ELSE
       LET s2 == IF s1.perspectiveMode
                 THEN [s1 EXCEPT !.perspectiveMapping = mapping]
                 ELSE s1
           s3 == [s2 EXCEPT !.isPlaying = TRUE, !.score = 0,
                            !.totalMistakes = 0, !.blockMistakes = 0,
                            !.totalTurns = 0, !.blockTurnCount = 0,
                            !.stimulusHistory = <<>>,
                            !.hasResponded = FALSE]
           s4 == IF s3.gameTimerInterval # Undefined
                 THEN clearTimeout(s3, s3.gameTimerInterval)
                 ELSE s3
           s5 == [s4 EXCEPT !.gameTimerInterval = Undefined,
                            !.timeLeftSeconds = s4.gameDurationSeconds]
       IN nextTurn(s5, swap, rule, stim)


\* a stop that also forgets the perspective mapping
stopGame_ForgettingMapping(s) ==
  LET s1 == clearTimeout([s EXCEPT !.isPlaying = FALSE], s.timer)
      s2 == IF s1.gameTimerInterval # Undefined
            THEN clearTimeout(s1, s1.gameTimerInterval)
            ELSE s1
  IN [s2 EXCEPT !.gameTimerInterval = Undefined,
                !.perspectiveMapping = NoMapping]

\* a stop that leaves the turn timer armed
stopGame_KeepingTurnTimer(s) ==
  LET s1 == [s EXCEPT !.isPlaying = FALSE]
      s2 == IF s1.gameTimerInterval # Undefined
            THEN clearTimeout(s1, s1.gameTimerInterval)
            ELSE s1
  IN [s2 EXCEPT !.gameTimerInterval = Undefined]

stopGame(s) ==
  LET s1 == clearTimeout([s EXCEPT !.isPlaying = FALSE], s.timer)
      s2 == IF s1.gameTimerInterval # Undefined
            THEN clearTimeout(s1, s1.gameTimerInterval)
            ELSE s1
  IN [s2 EXCEPT !.gameTimerInterval = Undefined]

(***************************************************************************)
(* Judgment and scoring                                                    *)
(***************************************************************************)
\* a bonus without the floor at 0
speedBonus_Unfloored(reactionTime) ==
  Min(10, (2000 - reactionTime) \div 150)

\* Math.max(0, Math.min(10, Math.floor((2000 - reactionTime) / 150)))
speedBonus(reactionTime) ==
  Max(0, Min(10, (2000 - reactionTime) \div 150))

\* a guard that lets an answered turn be judged again
inputIgnored_Rejudging(s) ==
  ~s.isPlaying \/ Len(s.stimulusHistory) <= s.nBack

\* the guard of handleInput: the early return
inputIgnored(s) ==
  ~s.isPlaying \/ Len(s.stimulusHistory) <= s.nBack \/ s.hasResponded

\* a target that is always the previous stimulus
targetStim_Previous(s) ==
  s.stimulusHistory[Len(s.stimulusHistory) - 1]

\* the stimulus nBack turns before the current one
targetStim(s) ==
  s.stimulusHistory[Len(s.stimulusHistory) - s.nBack]

\* a penalty that grows with the level
incorrectResponse_Scaled(s) ==
  [s EXCEPT !.totalMistakes = @ + 1,
            !.blockMistakes = @ + 1,
            !.score = @ - 5 * s.nBack]

\* an incorrect response counted as two mistakes of the session
incorrectResponse_CountingTwice(s) ==
  [s EXCEPT !.totalMistakes = @ + 2,
            !.blockMistakes = @ + 1,
            !.score = @ - 5]

\* the branch of handleInput for an incorrect response
incorrectResponse(s) ==
  [s EXCEPT !.totalMistakes = @ + 1,
            !.blockMistakes = @ + 1,
            !.score = @ - 5]



\* a response that arms the next turn a full interval later
handleInput_FullInterval(s, action, t) ==
  IF inputIgnored(s)
  THEN s
  ELSE
    LET n == Len(s.stimulusHistory)
        currentStim == s.stimulusHistory[n]
        val1 == getTransformedValue(s, currentStim, s.currentRule)
        val2 == getTransformedValue(s, targetStim(s), s.currentRule)
        isMatch == val1 = val2
        correct == IF action = "match" THEN isMatch ELSE ~isMatch
        reactionTime == t - s.currentStimulus.id
        s1 == [s EXCEPT !.hasResponded = TRUE, !.now = t]
        s2 == IF correct
              THEN [s1 EXCEPT !.score =
                                @ + 10 + s1.nBack * 5 + speedBonus(reactionTime)]
              ELSE incorrectResponse(s1)
        s3 == IF s2.timer # Undefined THEN clearTimeout(s2, s2.timer) ELSE s2
    IN setTimeout(s3, INTERVAL_MS)

\* a response that arms its timer without cancelling the armed one
handleInput_NotCancelling(s, action, t) ==
  IF inputIgnored(s)
  THEN s
  ELSE
    LET n == Len(s.stimulusHistory)
        currentStim == s.stimulusHistory[n]
        val1 == getTransformedValue(s, currentStim, s.currentRule)
        val2 == getTransformedValue(s, targetStim(s), s.currentRule)
        isMatch == val1 = val2
        correct == IF action = "match" THEN isMatch ELSE ~isMatch
        reactionTime == t - s.currentStimulus.id
        s1 == [s EXCEPT !.hasResponded = TRUE, !.now = t]
        s2 == IF correct
              THEN [s1 EXCEPT !.score =
                                @ + 10 + s1.nBack * 5 + speedBonus(reactionTime)]
              ELSE incorrectResponse(s1)
    IN setTimeout(s2, RESPONSE_DELAY_MS)

\* handleInput(action), called at time t
handleInput(s, action, t) ==
  IF inputIgnored(s)
  THEN s
  ELSE
    LET n == Len(s.stimulusHistory)
        currentStim == s.stimulusHistory[n]
        val1 == getTransformedValue(s, currentStim, s.currentRule)
        val2 == getTransformedValue(s, targetStim(s), s.currentRule)
        isMatch == val1 = val2
        correct == IF action = "match" THEN isMatch ELSE ~isMatch
        reactionTime == t - s.currentStimulus.id
        s1 == [s EXCEPT !.hasResponded = TRUE, !.now = t]
        s2 == IF correct
              THEN [s1 EXCEPT !.score =
                                @ + 10 + s1.nBack * 5 + speedBonus(reactionTime)]
              ELSE incorrectResponse(s1)
        s3 == IF s2.timer # Undefined THEN clearTimeout(s2, s2.timer) ELSE s2
    IN setTimeout(s3, RESPONSE_DELAY_MS)

\* a dispatch that ignores the swap of the turn
handlePhysicalSide_IgnoringSwap(s, side, t) ==
  IF ~s.isPlaying THEN s
  ELSE handleInput(s, IF side = "left" THEN "match" ELSE "non_match", t)

handlePhysicalSide(s, side, t) ==
  IF ~s.isPlaying THEN s
  ELSE
    LET action == IF ~s.isSwapped
                  THEN IF side = "left" THEN "match" ELSE "non_match"
                  ELSE IF side = "left" THEN "non_match" ELSE "match"
    IN handleInput(s, action, t)



\* a level change that keeps the block counters
manualLevelChange_KeepingCounters(s, delta) ==
  IF s.nBack + delta >= 1 THEN [s EXCEPT !.nBack = @ + delta] ELSE s

\* a level change that starts the history afresh
manualLevelChange_ClearingHistory(s, delta) ==
  IF s.nBack + delta >= 1
  THEN [s EXCEPT !.nBack = @ + delta, !.blockTurnCount = 0,
                 !.blockMistakes = 0, !.stimulusHistory = <<>>]
  ELSE s

\* a level change without the test newLevel >= 1
manualLevelChange_Unclamped(s, delta) ==
  [s EXCEPT !.nBack = s.nBack + delta,
            !.blockTurnCount = 0,
            !.blockMistakes = 0]

manualLevelChange(s, delta) ==
  LET newLevel == s.nBack + delta
  IN IF newLevel >= 1
     THEN [s EXCEPT !.nBack = newLevel,
                    !.blockTurnCount = 0,
                    !.blockMistakes = 0]
     ELSE s

(***************************************************************************)
(* Configuration                                                           *)
(***************************************************************************)
\* toggleRule(rule)
toggleRule(s, rule) ==
  IF s.perspectiveMode /\ s.perspectiveType = "spatial"
     /\ rule \in {"shape", "size"}
  THEN s
  ELSE IF rule \in s.activeRules
       THEN IF Cardinality(s.activeRules) > 1
            THEN [s EXCEPT !.activeRules = @ \ {rule}]
            ELSE s
       ELSE [s EXCEPT !.activeRules = @ \cup {rule}]

\* the handlers of the Symbolic and Spatial buttons
selectPerspectiveType(s, type) ==
  IF type = "spatial"
  THEN LET kept == s.activeRules \ {"shape", "size"}
       IN [s EXCEPT !.perspectiveType = "spatial",
                    !.activeRules = IF kept = {} THEN {"color"} ELSE kept]
  ELSE [s EXCEPT !.perspectiveType = "symbolic"]

(***************************************************************************)
(* Construction and mount                                                  *)
(***************************************************************************)
\* the state the script's declarations construct
Constructed ==
  [activeRules |-> {"color", "shape"}, perspectiveMode |-> FALSE,
   perspectiveType |-> "symbolic", spatialType |-> "rotation",
   distractorsEnabled |-> FALSE, controlSwapEnabled |-> FALSE,
   useTimer |-> TRUE, gameDurationSeconds |-> 60, autoProgress |-> TRUE,
   isPlaying |-> FALSE, score |-> 0, nBack |-> 1, blockTurnCount |-> 0,
   blockMistakes |-> 0, totalMistakes |-> 0, totalTurns |-> 0,
   lastStroopText |-> "", hasResponded |-> FALSE, isSwapped |-> FALSE,
   perspectiveMapping |-> NoMapping, currentRule |-> "color",
   stimulusHistory |-> <<>>, currentStimulus |-> Undefined,
   timeLeftSeconds |-> 60, timer |-> Undefined,
   gameTimerInterval |-> Undefined, timeouts |-> {}, intervals |-> {},
   now |-> 0, savedHistory |-> <<>>, mappingCall |-> NoCall]

\* loadSettings, run on mount: `stored` holds the persisted settings
loadSettings(s, stored) ==
  LET s1 == [s EXCEPT !.perspectiveMode = stored.perspectiveMode,
                      !.perspectiveType = stored.perspectiveType,
                      !.spatialType = stored.spatialType]
      s2 == IF stored.activeRules # {}
            THEN [s1 EXCEPT !.activeRules = stored.activeRules]
            ELSE s1
      s3 == sanitizeRules(s2)
  IN [s3 EXCEPT !.distractorsEnabled = stored.distractorsEnabled,
                !.controlSwapEnabled = stored.controlSwapEnabled,
                !.useTimer = stored.useTimer,
                !.gameDurationSeconds = stored.gameDurationSeconds,
                !.timeLeftSeconds = stored.gameDurationSeconds]

\* the current state is the record r
Is(r) ==
  /\ activeRules = r.activeRules
  /\ perspectiveMode = r.perspectiveMode
  /\ perspectiveType = r.perspectiveType
  /\ spatialType = r.spatialType
  /\ distractorsEnabled = r.distractorsEnabled
  /\ controlSwapEnabled = r.controlSwapEnabled
  /\ useTimer = r.useTimer
  /\ gameDurationSeconds = r.gameDurationSeconds
  /\ autoProgress = r.autoProgress
  /\ isPlaying = r.isPlaying
  /\ score = r.score
  /\ nBack = r.nBack
  /\ blockTurnCount = r.blockTurnCount
  /\ blockMistakes = r.blockMistakes
  /\ totalMistakes = r.totalMistakes
  /\ totalTurns = r.totalTurns
  /\ lastStroopText = r.lastStroopText
  /\ hasResponded = r.hasResponded
  /\ isSwapped = r.isSwapped
  /\ perspectiveMapping = r.perspectiveMapping
  /\ currentRule = r.currentRule
  /\ stimulusHistory = r.stimulusHistory
  /\ currentStimulus = r.currentStimulus
  /\ timeLeftSeconds = r.timeLeftSeconds
  /\ timer = r.timer
  /\ gameTimerInterval = r.gameTimerInterval
  /\ timeouts = r.timeouts
  /\ intervals = r.intervals
  /\ now = r.now
  /\ savedHistory = r.savedHistory
  /\ mappingCall = r.mappingCall

\* the persisted settings of a fresh installation
DefaultSettings ==
  [activeRules |-> {"color", "shape"}, perspectiveMode |-> FALSE,
   perspectiveType |-> "symbolic", spatialType |-> "rotation",
   distractorsEnabled |-> FALSE, controlSwapEnabled |-> FALSE,
   useTimer |-> TRUE, gameDurationSeconds |-> 60]

\* the state after mount, for the persisted settings of `settings`
Mounted(settings) == \E stored \in settings : Is(loadSettings(Constructed, stored))

(***************************************************************************)
(* Actions                                                                 *)
(***************************************************************************)
\* Start button (shown while idle)
Start(P) ==
  /\ ~isPlaying
  /\ Len(savedHistory) < P.maxSaved
  /\ LET s0 == [Cur EXCEPT !.now = 0]
         s1 == sanitizeRules(s0)
     IN \E mapping \in (IF s1.perspectiveMode
                        THEN scramblePerspectiveRules(P.shuffles)
                        ELSE {s1.perspectiveMapping}),
           swap \in P.swaps,
           rule \in (IF s1.activeRules = {} THEN {s1.currentRule}
                     ELSE s1.activeRules),
           stim \in generateStimulus(s1, P) :
          Becomes(startGame(s0, mapping, swap, rule, stim))

\* Stop button (shown while playing)
Stop ==
  /\ isPlaying
  /\ Becomes(stopGame(Cur))

\* The scheduler runs callbacks in the order of their due times: an event
\* happens at time t only when no live callback is due before t.
CanHappenAt(t) ==
  /\ t >= now
  /\ \A x \in timeouts \cup intervals : x.due >= t

\* a live setTimeout(nextTurn, ...) callback runs at its due time
TurnTimerFires(P) ==
  \E x \in timeouts :
    /\ CanHappenAt(x.due)
    /\ isPlaying => totalTurns < P.maxTurns
    /\ LET s0 == [Cur EXCEPT !.timeouts = @ \ {x}, !.now = x.due]
       IN \E swap \in P.swaps, rule \in s0.activeRules,
             stim \in generateStimulus(s0, P) :
            Becomes(nextTurn(s0, swap, rule, stim))

\* the live countdown interval runs its callback and is due again a period
\* later
CountdownTicks ==
  \E x \in intervals :
    /\ CanHappenAt(x.due)
    /\ Becomes(countdownTick(
         [Cur EXCEPT !.now = x.due,
                     !.intervals = (@ \ {x})
                        \cup {[id |-> x.id, due |-> x.due + TICK_MS]}]))

\* a key press or a click on a side, a reaction time of P.rts after the
\* current stimulus appeared
Press(P) ==
  \E side \in {"left", "right"}, d \in P.rts :
    LET t == IF isPlaying THEN currentStimulus.id + d ELSE now
    IN /\ CanHappenAt(t)
       /\ Becomes(handlePhysicalSide(Cur, side, t))

\* the level buttons (enabled while auto-progress is off)
LevelChange(P) ==
  /\ ~autoProgress
  /\ \E delta \in {-1, 1} :
       /\ nBack + delta <= P.maxLevel
       /\ Becomes(manualLevelChange(Cur, delta))

\* the auto-level checkbox
ToggleAutoProgress ==
  Becomes([Cur EXCEPT !.autoProgress = ~@])

\* The settings dialog covers the page and is opened by the Config button,
\* which is shown while idle: the configuration actions happen while idle.

\* the "Enable Me vs. You" checkbox
TogglePerspectiveMode ==
  /\ ~isPlaying
  /\ Becomes([Cur EXCEPT !.perspectiveMode = ~@])

\* the Symbolic and Spatial buttons (shown while perspective mode is on)
SelectPerspectiveType ==
  /\ ~isPlaying
  /\ perspectiveMode
  /\ \E type \in {"symbolic", "spatial"} :
       Becomes(selectPerspectiveType(Cur, type))

\* the "Random Control Swap" checkbox
ToggleControlSwap ==
  /\ ~isPlaying
  /\ Becomes([Cur EXCEPT !.controlSwapEnabled = ~@])

\* the rule checkboxes
ToggleRule ==
  /\ ~isPlaying
  /\ \E rule \in Range(ALL_ATTRIBUTES) : Becomes(toggleRule(Cur, rule))

(***************************************************************************)
(* The session specification: the turn timer, the responses, the level     *)
(* controls, stop and restart of short untimed sessions.                   *)
(***************************************************************************)
SessionProfile ==
  [colors |-> {"red"}, backs |-> {"green"}, nets |-> {"red"},
   shapes |-> {"cube"}, cutouts |-> {"cube"}, sizes |-> {"medium"},
   positions |-> {"center"}, observers |-> {"me"}, words |-> {"RED"},
   inks |-> {"red"}, swaps |-> {FALSE}, shuffles |-> {<<2, 3, 1>>},
   rts |-> {100, 2000}, maxTurns |-> MaxTurns, maxSaved |-> MaxSaved,
   maxLevel |-> MaxLevel]

SessionSettings ==
  {[DefaultSettings EXCEPT !.activeRules = {"color"}, !.useTimer = FALSE]}

Init == Mounted(SessionSettings)

Next ==
  \/ Start(SessionProfile)
  \/ Stop
  \/ TurnTimerFires(SessionProfile)
  \/ Press(SessionProfile)
  \/ LevelChange(SessionProfile)
  \/ ToggleAutoProgress

Spec == Init /\ [][Next]_vars

(***************************************************************************)
(* The level specification: every way the level changes in short sessions, *)
(* timed (ending by timeout) and untimed, over one stimulus.  The level    *)
(* buttons raise the level up to MaxManualLevel; a timeout raises it       *)
(* beyond that.                                                            *)
(***************************************************************************)
LevelProfile ==
  [colors |-> {"red"}, backs |-> {"green"}, nets |-> {"red"},
   shapes |-> {"cube"}, cutouts |-> {"cube"}, sizes |-> {"medium"},
   positions |-> {"center"}, observers |-> {"me"}, words |-> {"RED"},
   inks |-> {"red"}, swaps |-> {FALSE}, shuffles |-> {<<2, 3, 1>>},
   rts |-> {3000}, maxTurns |-> MaxLevelTurns, maxSaved |-> MaxSaved,
   maxLevel |-> MaxManualLevel]

LevelSettings ==
  {[DefaultSettings EXCEPT !.activeRules = {"color"}, !.useTimer = u,
                           !.gameDurationSeconds = MinDuration] :
     u \in BOOLEAN}

InitLevel == Mounted(LevelSettings)

NextLevel ==
  \/ Start(LevelProfile)
  \/ Stop
  \/ TurnTimerFires(LevelProfile)
  \/ CountdownTicks
  \/ Press(LevelProfile)
  \/ LevelChange(LevelProfile)
  \/ ToggleAutoProgress

SpecLevel == InitLevel /\ [][NextLevel]_vars

(***************************************************************************)
(* The judgment specification: untimed sessions over varied stimuli, rules *)
(* and perspectives.                                                       *)
(***************************************************************************)
JudgeProfile ==
  [colors |-> {"red", "blue"}, backs |-> {"red", "blue"}, nets |-> {"red"},
   shapes |-> {"cube"}, cutouts |-> {"cube"}, sizes |-> {"medium"},
   positions |-> {"center"}, observers |-> {"me", "opposite"},
   words |-> {"RED"}, inks |-> {"red"}, swaps |-> {FALSE},
   shuffles |-> {<<2, 3, 1>>}, rts |-> {3000},
   maxTurns |-> MaxJudgeTurns, maxSaved |-> MaxSaved, maxLevel |-> MaxLevel]

JudgeSettings ==
  {[DefaultSettings EXCEPT !.activeRules = {"color", "position"},
                           !.useTimer = FALSE,
                           !.perspectiveMode = m] :
     m \in BOOLEAN}

InitJudge == Mounted(JudgeSettings)

NextJudge ==
  \/ Start(JudgeProfile)
  \/ TurnTimerFires(JudgeProfile)
  \/ Press(JudgeProfile)
  \/ LevelChange(JudgeProfile)
  \/ ToggleAutoProgress

SpecJudge == InitJudge /\ [][NextJudge]_vars

(***************************************************************************)
(* The block specification: untimed sessions with auto-progress, long      *)
(* enough for two blocks of BLOCK_SIZE turns, over one stimulus.           *)
(***************************************************************************)
BlockProfile ==
  [colors |-> {"red"}, backs |-> {"green"}, nets |-> {"red"},
   shapes |-> {"cube"}, cutouts |-> {"cube"}, sizes |-> {"medium"},
   positions |-> {"center"}, observers |-> {"me"}, words |-> {"RED"},
   inks |-> {"red"}, swaps |-> {FALSE}, shuffles |-> {<<2, 3, 1>>},
   rts |-> {3000}, maxTurns |-> MaxBlockTurns, maxSaved |-> MaxSaved,
   maxLevel |-> MaxLevel]

BlockSettings ==
  {[DefaultSettings EXCEPT !.activeRules = {"color"}, !.useTimer = FALSE]}

InitBlock == Mounted(BlockSettings)

NextBlock ==
  \/ Start(BlockProfile)
  \/ TurnTimerFires(BlockProfile)
  \/ Press(BlockProfile)

SpecBlock == InitBlock /\ [][NextBlock]_vars

(***************************************************************************)
(* The scoring specification: untimed sessions over one stimulus, with     *)
(* responses at several reaction times and at several levels.              *)
(***************************************************************************)
ScoreProfile ==
  [colors |-> {"red"}, backs |-> {"green"}, nets |-> {"red"},
   shapes |-> {"cube"}, cutouts |-> {"cube"}, sizes |-> {"medium"},
   positions |-> {"center"}, observers |-> {"me"}, words |-> {"RED"},
   inks |-> {"red"}, swaps |-> {FALSE}, shuffles |-> {<<2, 3, 1>>},
   rts |-> {0, 100, 500, 650, 1000, 1850, 1851, 2000, 2001, 3000},
   maxTurns |-> MaxScoreTurns, maxSaved |-> MaxSaved, maxLevel |-> MaxLevel]

InitScore == Mounted(BlockSettings)

NextScore ==
  \/ Start(ScoreProfile)
  \/ TurnTimerFires(ScoreProfile)
  \/ Press(ScoreProfile)
  \/ LevelChange(ScoreProfile)
  \/ ToggleAutoProgress

SpecScore == InitScore /\ [][NextScore]_vars

(***************************************************************************)
(* The timed specification: sessions that end by timeout or by stop and    *)
(* are followed by further sessions, with auto-progress on or off, over    *)
(* one stimulus.                                                           *)
(***************************************************************************)
TimedProfile ==
  [colors |-> {"red"}, backs |-> {"green"}, nets |-> {"red"},
   shapes |-> {"cube"}, cutouts |-> {"cube"}, sizes |-> {"medium"},
   positions |-> {"center"}, observers |-> {"me"}, words |-> {"RED"},
   inks |-> {"red"}, swaps |-> {FALSE}, shuffles |-> {<<2, 3, 1>>},
   rts |-> {2500, 3000}, maxTurns |-> MaxTimedTurns, maxSaved |-> MaxTimedSaved,
   maxLevel |-> MaxLevel]

InitTimed == Mounted(LevelSettings)

NextTimed ==
  \/ Start(TimedProfile)
  \/ Stop
  \/ TurnTimerFires(TimedProfile)
  \/ CountdownTicks
  \/ Press(TimedProfile)
  \/ ToggleAutoProgress

SpecTimed == InitTimed /\ [][NextTimed]_vars

(***************************************************************************)
(* The configuration specification: the perspective and rule controls of   *)
(* the settings dialog, mount with persisted settings, start and stop.     *)
(***************************************************************************)
ConfigProfile ==
  [colors |-> {"red"}, backs |-> {"green"}, nets |-> {"red"},
   shapes |-> {"cube"}, cutouts |-> {"cube"}, sizes |-> {"medium"},
   positions |-> {"center"}, observers |-> {"me"}, words |-> {"RED"},
   inks |-> {"red"}, swaps |-> {FALSE}, shuffles |-> {<<2, 3, 1>>},
   rts |-> {3000}, maxTurns |-> MaxTurns, maxSaved |-> MaxSaved,
   maxLevel |-> MaxLevel]

\* a fresh installation with the timer off, and the settings persisted after
\* both rules were toggled and the Spatial button was pressed
ConfigSettings ==
  {[DefaultSettings EXCEPT !.useTimer = FALSE],
   [DefaultSettings EXCEPT !.useTimer = FALSE, !.perspectiveMode = TRUE,
                           !.perspectiveType = "spatial"]}

InitConfig == Mounted(ConfigSettings)

NextConfig ==
  \/ TogglePerspectiveMode
  \/ SelectPerspectiveType
  \/ ToggleRule
  \/ Start(ConfigProfile)
  \/ Stop

SpecConfig == InitConfig /\ [][NextConfig]_vars

(***************************************************************************)
(* The log specification: timed sessions played on a history log that      *)
(* earlier visits left almost full or full.                                *)
(***************************************************************************)
LogProfile ==
  [colors |-> {"red"}, backs |-> {"green"}, nets |-> {"red"},
   shapes |-> {"cube"}, cutouts |-> {"cube"}, sizes |-> {"medium"},
   positions |-> {"center"}, observers |-> {"me"}, words |-> {"RED"},
   inks |-> {"red"}, swaps |-> {FALSE}, shuffles |-> {<<2, 3, 1>>},
   rts |-> {3000}, maxTurns |-> MaxTimedTurns, maxSaved |-> HISTORY_CAP + 1,
   maxLevel |-> MaxLevel]

\* The records of two sessions of an earlier visit, played at level 1 under
\* the default rules with a 10 s timer: one with every judgable turn missed,
\* one with every response correct and auto-level off.
EarlierRecords ==
  <<[score |-> -10, accuracy |-> 50, maxNBack |-> 1,
     perspectiveMode |-> FALSE, perspectiveType |-> "symbolic",
     activeRules |-> {"color", "shape"}],
    [score |-> 45, accuracy |-> 100, maxNBack |-> 1,
     perspectiveMode |-> FALSE, perspectiveType |-> "symbolic",
     activeRules |-> {"color", "shape"}]>>

\* the log an earlier visit left: n records, the two kinds alternating
EarlierLog(n) == [i \in 1..n |-> EarlierRecords[1 + (i % 2)]]

\* the state after mount on a log of HISTORY_CAP - 1 or HISTORY_CAP records
InitLog ==
  \E stored \in {[DefaultSettings EXCEPT !.activeRules = {"color"},
                                         !.gameDurationSeconds = MinDuration]},
     n \in {HISTORY_CAP - 1, HISTORY_CAP} :
    Is([loadSettings(Constructed, stored) EXCEPT
          !.savedHistory = EarlierLog(n)])

\* the records logged since mount (the rules were changed since the
\* earlier visit)
LoggedSinceMount ==
  Cardinality({i \in DOMAIN savedHistory :
                 savedHistory[i].activeRules = {"color"}})

NextLog ==
  \/ LoggedSinceMount < MaxLogSessions /\ Start(LogProfile)
  \/ TurnTimerFires(LogProfile)
  \/ CountdownTicks
  \/ Press(LogProfile)

SpecLog == InitLog /\ [][NextLog]_vars

(***************************************************************************)
(* The countdown specification: sessions with the timer on, stopped and    *)
(* restarted, with manual level changes, up to the first timeout.          *)
(***************************************************************************)
CountdownProfile ==
  [colors |-> {"red"}, backs |-> {"green"}, nets |-> {"red"},
   shapes |-> {"cube"}, cutouts |-> {"cube"}, sizes |-> {"medium"},
   positions |-> {"center"}, observers |-> {"me"}, words |-> {"RED"},
   inks |-> {"red"}, swaps |-> {FALSE}, shuffles |-> {<<2, 3, 1>>},
   rts |-> {3000}, maxTurns |-> MaxTimedTurns, maxSaved |-> HISTORY_CAP,
   maxLevel |-> MaxLevel]

CountdownSettings ==
  {[DefaultSettings EXCEPT !.activeRules = {"color"},
                           !.gameDurationSeconds = MinDuration]}

InitCountdown == Mounted(CountdownSettings)

NextCountdown ==
  \/ savedHistory = <<>> /\ Start(CountdownProfile)
  \/ Stop
  \/ TurnTimerFires(CountdownProfile)
  \/ CountdownTicks
  \/ Press(CountdownProfile)
  \/ LevelChange(CountdownProfile)
  \/ ToggleAutoProgress

SpecCountdown == InitCountdown /\ [][NextCountdown]_vars

(***************************************************************************)
(* The mapping specification: calls of generateCyclicMapping, stepped      *)
(* through the shuffle-and-reject loop, on every domain of up to MaxDomain *)
(* distinct values, beside game starts in perspective mode.                *)
(***************************************************************************)
\* the values the domains are made of
DomainValues == Range(COLORS) \cup {"cube"}

\* the arrays of distinct values of length 1 .. MaxDomain
Domains ==
  UNION {{d \in [1..n -> DomainValues] :
            \A i, j \in 1..n : d[i] = d[j] => i = j} : n \in 1..MaxDomain}

\* while (!isValid): one more iteration, the sort producing arrangement p
Iterate(p) ==
  /\ mappingCall.pc = "loop"
  /\ ~mappingCall.isValid
  /\ p \in Shuffles(Len(mappingCall.values))
  /\ Becomes([Cur EXCEPT !.mappingCall = loopIteration(@, p)])

\* the loop was left: the map is built and returned
Return ==
  /\ mappingCall.pc = "loop"
  /\ mappingCall.isValid
  /\ Becomes([Cur EXCEPT !.mappingCall = returnMap(@)])

MappingProfile ==
  [colors |-> {"red"}, backs |-> {"green"}, nets |-> {"red"},
   shapes |-> {"cube"}, cutouts |-> {"cube"}, sizes |-> {"medium"},
   positions |-> {"center"}, observers |-> {"opposite"}, words |-> {"RED"},
   inks |-> {"red"}, swaps |-> {FALSE}, shuffles |-> Shuffles(Len(COLORS)),
   rts |-> {3000}, maxTurns |-> MaxTurns, maxSaved |-> MaxSaved,
   maxLevel |-> MaxLevel]

MappingSettings ==
  {[DefaultSettings EXCEPT !.perspectiveMode = TRUE, !.useTimer = FALSE]}

InitMapping ==
  \E stored \in MappingSettings, values \in Domains :
    Is([loadSettings(Constructed, stored) EXCEPT
          !.mappingCall = enterCall(values)])

NextLoop ==
  \/ \E p \in Shuffles(Len(mappingCall.values)) : Iterate(p)
  \/ Return

NextMapping ==
  \/ NextLoop
  \/ Start(MappingProfile)
  \/ Stop

SpecMapping == InitMapping /\ [][NextMapping]_vars

\* The call alone, under the assumption that the sort produces every
\* arrangement again and again while the loop runs, and that the statements
\* after the loop are executed once the loop is left.
FairShuffle ==
  \A n \in 1..MaxDomain : \A p \in Shuffles(n) : WF_vars(Iterate(p))

SpecMappingFair ==
  InitMapping /\ [][NextLoop]_vars /\ FairShuffle /\ WF_vars(Return)

(***************************************************************************)
(* The perspective specification: short untimed sessions in every          *)
(* perspective mode and type, over stimuli of both observers, every        *)
(* position and two colour pairs; the perspective controls are used        *)
(* between sessions.                                                       *)
(***************************************************************************)
PerspectiveProfile ==
  [colors |-> {"red", "green"}, backs |-> {"red", "green"}, nets |-> {"red"},
   shapes |-> {"cube"}, cutouts |-> {"cube"}, sizes |-> {"medium"},
   positions |-> Range(POSITIONS), observers |-> {"me", "opposite"},
   words |-> {"RED", "BLUE"}, inks |-> {"red"}, swaps |-> {FALSE},
   shuffles |-> {<<2, 3, 1>>}, rts |-> {3000},
   maxTurns |-> MaxPerspectiveTurns, maxSaved |-> MaxSaved,
   maxLevel |-> MaxLevel]

\* one rule, and the distractors on: shape, size and position vary
PerspectiveSettings ==
  {[DefaultSettings EXCEPT !.activeRules = {"color"},
                           !.distractorsEnabled = TRUE,
                           !.useTimer = FALSE,
                           !.perspectiveMode = m] :
     m \in BOOLEAN}

InitPerspective == Mounted(PerspectiveSettings)

NextPerspective ==
  \/ Start(PerspectiveProfile)
  \/ Stop
  \/ TurnTimerFires(PerspectiveProfile)
  \/ TogglePerspectiveMode
  \/ SelectPerspectiveType

SpecPerspective == InitPerspective /\ [][NextPerspective]_vars

(***************************************************************************)
(* The progression specification: sessions longer than a block of          *)
(* BLOCK_SIZE turns, with the timer on or off and auto-progress on or off, *)
(* over one stimulus; the level buttons are used once BLOCK_SIZE turns     *)
(* were counted.                                                           *)
(***************************************************************************)
ProgressProfile ==
  [colors |-> {"red"}, backs |-> {"green"}, nets |-> {"red"},
   shapes |-> {"cube"}, cutouts |-> {"cube"}, sizes |-> {"medium"},
   positions |-> {"center"}, observers |-> {"me"}, words |-> {"RED"},
   inks |-> {"red"}, swaps |-> {FALSE}, shuffles |-> {<<2, 3, 1>>},
   rts |-> {3000}, maxTurns |-> MaxProgressTurns, maxSaved |-> MaxSaved,
   maxLevel |-> MaxLevel]

\* the timer off, or on with a duration of 1 min 30 s
ProgressSettings ==
  {[DefaultSettings EXCEPT !.activeRules = {"color"}, !.useTimer = u,
                           !.gameDurationSeconds = 90] :
     u \in BOOLEAN}

InitProgress == Mounted(ProgressSettings)

NextProgress ==
  \/ Start(ProgressProfile)
  \/ TurnTimerFires(ProgressProfile)
  \/ CountdownTicks
  \/ Press(ProgressProfile)
  \/ blockTurnCount >= BLOCK_SIZE /\ LevelChange(ProgressProfile)
  \/ ToggleAutoProgress

SpecProgress == InitProgress /\ [][NextProgress]_vars

(***************************************************************************)
(* The symbolic specification: timed sessions with perspective mode on or  *)
(* off, stopped and restarted under either of two shuffles per attribute,  *)
(* with responses and manual level changes, up to the first timeout;       *)
(* auto-progress is switched between sessions.                             *)
(***************************************************************************)
SymbolicProfile ==
  [colors |-> {"red"}, backs |-> {"green"}, nets |-> {"red"},
   shapes |-> {"cube"}, cutouts |-> {"cube"}, sizes |-> {"medium"},
   positions |-> {"center"}, observers |-> {"opposite"}, words |-> {"RED"},
   inks |-> {"red"}, swaps |-> {FALSE},
   shuffles |-> {<<2, 3, 1>>, <<3, 1, 2>>},
   rts |-> {3000}, maxTurns |-> MaxSymbolicTurns, maxSaved |-> HISTORY_CAP,
   maxLevel |-> MaxLevel]

SymbolicSettings ==
  {[DefaultSettings EXCEPT !.activeRules = {"color"},
                           !.gameDurationSeconds = MinDuration,
                           !.perspectiveMode = m] :
     m \in BOOLEAN}

InitSymbolic == Mounted(SymbolicSettings)

NextSymbolic ==
  \/ savedHistory = <<>> /\ Start(SymbolicProfile)
  \/ Stop
  \/ TurnTimerFires(SymbolicProfile)
  \/ CountdownTicks
  \/ Press(SymbolicProfile)
  \/ LevelChange(SymbolicProfile)
  \/ ~isPlaying /\ ToggleAutoProgress

SpecSymbolic == InitSymbolic /\ [][NextSymbolic]_vars

(***************************************************************************)
(* The control-swap specification: untimed sessions with the control swap  *)
(* enabled or disabled between sessions, every turn swapped or not, and    *)
(* responses on either side.                                               *)
(***************************************************************************)
SwapProfile ==
  [colors |-> {"red", "blue"}, backs |-> {"green"}, nets |-> {"red"},
   shapes |-> {"cube"}, cutouts |-> {"cube"}, sizes |-> {"medium"},
   positions |-> {"center"}, observers |-> {"me"}, words |-> {"RED"},
   inks |-> {"red"}, swaps |-> BOOLEAN, shuffles |-> {<<2, 3, 1>>},
   rts |-> {3000}, maxTurns |-> MaxSwapTurns, maxSaved |-> MaxSaved,
   maxLevel |-> MaxLevel]

SwapSettings ==
  {[DefaultSettings EXCEPT !.activeRules = {"color"}, !.useTimer = FALSE,
                           !.controlSwapEnabled = e] :
     e \in BOOLEAN}

InitSwap == Mounted(SwapSettings)

NextSwap ==
  \/ Start(SwapProfile)
  \/ Stop
  \/ TurnTimerFires(SwapProfile)
  \/ Press(SwapProfile)
  \/ ToggleControlSwap

SpecSwap == InitSwap /\ [][NextSwap]_vars

(***************************************************************************)
(* The rule specification: the configuration specification with turn       *)
(* advances, so that sessions of several turns are played under every      *)
(* rule set the settings dialog can leave behind.                          *)
(***************************************************************************)
RuleProfile == [ConfigProfile EXCEPT !.maxTurns = MaxRuleTurns]

InitRule == Mounted(ConfigSettings)

NextRule ==
  \/ TogglePerspectiveMode
  \/ SelectPerspectiveType
  \/ ToggleRule
  \/ Start(RuleProfile)
  \/ Stop
  \/ TurnTimerFires(RuleProfile)

SpecRule == InitRule /\ [][NextRule]_vars

(***************************************************************************)
(* The termination specification: sessions with the timer on and the       *)
(* shortest duration, without manual level changes, under the assumption   *)
(* that an armed turn timer and an armed countdown eventually fire.  The   *)
(* user may stop a session, or never do so.                                *)
(***************************************************************************)
LiveProfile ==
  [colors |-> {"red"}, backs |-> {"green"}, nets |-> {"red"},
   shapes |-> {"cube"}, cutouts |-> {"cube"}, sizes |-> {"medium"},
   positions |-> {"center"}, observers |-> {"me"}, words |-> {"RED"},
   inks |-> {"red"}, swaps |-> {FALSE}, shuffles |-> {<<2, 3, 1>>},
   rts |-> {3000}, maxTurns |-> MaxLiveTurns, maxSaved |-> MaxLiveSaved,
   maxLevel |-> MaxLevel]

LiveSettings ==
  {[DefaultSettings EXCEPT !.activeRules = {"color"},
                           !.gameDurationSeconds = MinDuration]}

InitLive == Mounted(LiveSettings)

NextLive ==
  \/ Start(LiveProfile)
  \/ Stop
  \/ TurnTimerFires(LiveProfile)
  \/ CountdownTicks
  \/ Press(LiveProfile)

\* the turn timer of the running session can fire now
TurnTimerDue ==
  /\ isPlaying
  /\ totalTurns < LiveProfile.maxTurns
  /\ \E x \in timeouts : CanHappenAt(x.due)

\* the countdown can tick now
CountdownDue == \E x \in intervals : CanHappenAt(x.due)

\* A turn timer that can fire eventually fires, and so does a countdown:
\* the firing of the turn timer is the step of a running session that
\* counts a turn, a tick the step that lowers timeLeftSeconds.
TimersFire ==
  /\ WF_totalTurns(TurnTimerDue /\ totalTurns' = totalTurns + 1)
  /\ WF_timeLeftSeconds(CountdownDue
                          /\ timeLeftSeconds' = timeLeftSeconds - 1)

SpecLive == InitLive /\ [][NextLive]_vars /\ TimersFire

(***************************************************************************)
(* Properties                                                              *)
(***************************************************************************)
\* a response given now would be judged
Accepting == isPlaying /\ Len(stimulusHistory) > nBack /\ ~hasResponded

\* a step in which handleInput(action) runs, a reaction time of P.rts after
\* the current stimulus appeared
Input(P, action) ==
  \E d \in P.rts :
    LET t == IF isPlaying THEN currentStimulus.id + d ELSE now
    IN /\ CanHappenAt(t)
       /\ Becomes(handleInput(Cur, action, t))

\* the ground truth of the current turn, by the values handleInput compares
IsMatchNow ==
  LET n == Len(stimulusHistory)
  IN getTransformedValue(Cur, stimulusHistory[n], currentRule)
       = getTransformedValue(Cur, stimulusHistory[n - nBack], currentRule)

\* a step that advances the turn of a running session
TurnAdvances == isPlaying /\ stimulusHistory' # stimulusHistory

\* the turn that ends now was judgable and was not answered
Unanswered == Len(stimulusHistory) > nBack /\ ~hasResponded

\* C1: handleInput changes nothing unless the session is running, the
\* history is longer than nBack and the turn has not been answered: a
\* response outside that leaves the score, the mistake counters, the
\* response flag, the history and the pending turn timer as they were.
\* Hence once a turn is answered no further response is scored before the
\* turn advances.
C1_ResponseOnlyWhenJudgable ==
  /\ [][\A action \in {"match", "non_match"} :
          (~Accepting /\ Input(SessionProfile, action)) =>
            UNCHANGED <<score, totalMistakes, blockMistakes, hasResponded,
                        stimulusHistory, timer, timeouts>>]_vars
  /\ [][(hasResponded /\ stimulusHistory' = stimulusHistory) =>
          UNCHANGED <<score, totalMistakes>>]_vars

\* a running turn that has been answered, where a further response must be
\* ignored
C1_Witness ==
  /\ isPlaying
  /\ hasResponded
  /\ Len(stimulusHistory) > nBack
  /\ score = 25
  /\ now = currentStimulus.id + 100

\* C2: the ground truth of a judged response compares the transformed
\* values, under the rule under test, of the last stimulus and of the one
\* nBack positions before it; "match" is correct exactly when they are
\* equal, "non_match" exactly when they differ.
C2_JudgedAgainstNBack ==
  [][\A action \in {"match", "non_match"} :
       (Accepting /\ Input(JudgeProfile, action)) =>
         IF (action = "match") <=> IsMatchNow
         THEN score' > score /\ totalMistakes' = totalMistakes
         ELSE score' < score /\ totalMistakes' = totalMistakes + 1]_vars

\* a correct response at level 2 where the stimulus two turns back is
\* perceived as the current one while the previous stimulus is not
C2_Witness ==
  /\ isPlaying
  /\ hasResponded
  /\ nBack = 2
  /\ Len(stimulusHistory) = 3
  /\ score = 20
  /\ totalMistakes = 0
  /\ perspectiveMode
  /\ currentRule = "color"
  /\ stimulusHistory[3].color # stimulusHistory[1].color
  /\ getTransformedValue(Cur, stimulusHistory[3], currentRule)
       = getTransformedValue(Cur, stimulusHistory[1], currentRule)
  /\ getTransformedValue(Cur, stimulusHistory[3], currentRule)
       # getTransformedValue(Cur, stimulusHistory[2], currentRule)

\* the number of whole 150 ms steps left before 2000 ms, between 0 and 10
ExpectedBonus(rt) ==
  CHOOSE b \in 0..10 :
    /\ b < 10 => 2000 - rt < 150 * (b + 1)
    /\ b > 0 => 2000 - rt >= 150 * b

\* C3: a correct response adds exactly 10 + 5 * nBack + bonus to the score,
\* where bonus = max(0, min(10, floor((2000 - rt) / 150))) and rt is the
\* time since the current stimulus was created, and leaves the mistake
\* counters alone; at nBack = 2 a response at 100 ms adds 30 and one at
\* 2000 ms or later adds 20.
C3_CorrectResponseScore ==
  [][(Accepting
      /\ Input(ScoreProfile, IF IsMatchNow THEN "match" ELSE "non_match")) =>
       LET rt == now' - currentStimulus.id
       IN /\ score' = score + 10 + 5 * nBack + ExpectedBonus(rt)
          /\ UNCHANGED <<totalMistakes, blockMistakes>>
          /\ (nBack = 2 /\ rt = 100) => score' = score + 30
          /\ (nBack = 2 /\ rt >= 2000) => score' = score + 20]_vars

\* a first correct response, at level 2 and 100 ms after the stimulus
C3_Witness ==
  /\ isPlaying
  /\ hasResponded
  /\ nBack = 2
  /\ Len(stimulusHistory) = 3
  /\ now = currentStimulus.id + 100
  /\ score = 30
  /\ totalMistakes = 0

\* C4: an incorrect response subtracts exactly 5 from the score and adds 1
\* to totalMistakes and to blockMistakes, whatever nBack and the reaction
\* time.
C4_IncorrectResponsePenalty ==
  [][(Accepting
      /\ Input(ScoreProfile, IF IsMatchNow THEN "non_match" ELSE "match")) =>
       /\ score' = score - 5
       /\ totalMistakes' = totalMistakes + 1
       /\ blockMistakes' = blockMistakes + 1]_vars

\* a first incorrect response, at level 2 and 100 ms after the stimulus
C4_Witness ==
  /\ isPlaying
  /\ hasResponded
  /\ nBack = 2
  /\ Len(stimulusHistory) = 3
  /\ now = currentStimulus.id + 100
  /\ score = -5
  /\ totalMistakes = 1
  /\ blockMistakes = 1

\* C5: when the turn of a running session advances, a miss (score - 5,
\* totalMistakes + 1, blockMistakes + 1) is charged exactly when, before the
\* new stimulus is appended, the history is longer than nBack and the turn
\* was not answered.  (blockMistakes is read on the advances that continue
\* the block; the advance that completes a block restarts it at 0.)
C5_MissCharged ==
  [][TurnAdvances =>
       IF Unanswered
       THEN /\ score' = score - 5
            /\ totalMistakes' = totalMistakes + 1
            /\ (blockTurnCount' = blockTurnCount + 1
                  => blockMistakes' = blockMistakes + 1)
       ELSE /\ UNCHANGED <<score, totalMistakes>>
            /\ (blockTurnCount' = blockTurnCount + 1
                  => blockMistakes' = blockMistakes)]_vars

\* the third turn of a session whose second turn ran its full interval
\* unanswered and was charged
C5_Witness ==
  /\ isPlaying
  /\ Len(stimulusHistory) = 3
  /\ now = 2 * INTERVAL_MS
  /\ score = -5
  /\ totalMistakes = 1
  /\ blockMistakes = 1
  /\ ~hasResponded

\* a turn advance that runs the block check: auto-progress on, timer off,
\* BLOCK_SIZE turns in the block
BlockCompletes ==
  TurnAdvances /\ autoProgress /\ ~useTimer /\ blockTurnCount = BLOCK_SIZE

\* the mistakes of the block at its check, the miss of the last turn
\* included
MistakesAtCheck == blockMistakes + (IF Unanswered THEN 1 ELSE 0)

\* C6: with auto-progress on and the timer off, a block of 20 turns with at
\* most 4 mistakes raises nBack by 1 at the next turn advance.
C6_BlockLevelUp ==
  [][(BlockCompletes /\ MistakesAtCheck <= 4) => nBack' = nBack + 1]_vars

\* the first turn after a first block that raised the level
C6_Witness ==
  /\ isPlaying
  /\ totalTurns = BLOCK_SIZE + 1
  /\ blockTurnCount = 1
  /\ blockMistakes = 0
  /\ totalMistakes = 4
  /\ nBack = 2

\* C7, as stated: a block of 20 turns with 10 or more mistakes at nBack > 1
\* lowers nBack by 1 at the next turn advance.
C7_BlockLevelDown_AsStated ==
  [][(BlockCompletes /\ MistakesAtCheck >= 10 /\ nBack > 1)
       => nBack' = nBack - 1]_vars

\* C7: with auto-progress on and the timer off, a block of 20 turns with 11
\* or more mistakes (accuracy below 50%) at nBack > 1 lowers nBack by 1 at
\* the next turn advance.
C7_BlockLevelDown ==
  [][(BlockCompletes /\ MistakesAtCheck >= 11 /\ nBack > 1)
       => nBack' = nBack - 1]_vars

\* the first turn after two blocks: a faultless one scored at level 1, then
\* one with 11 mistakes scored at level 2, after which the level is 1 again
C7_Witness ==
  /\ isPlaying
  /\ totalTurns = 2 * BLOCK_SIZE + 1
  /\ blockTurnCount = 1
  /\ totalMistakes = 11
  /\ score = 19 * 15 + 9 * 20 - 11 * 5
  /\ nBack = 1

\* C8: a completed block that neither reaches 80% accuracy nor falls below
\* 50% with nBack > 1 leaves nBack unchanged; a block completed at
\* nBack = 1 never lowers the level.
C8_BlockLevelKept ==
  [][BlockCompletes =>
       /\ (MistakesAtCheck > 4 /\ ~(MistakesAtCheck > 10 /\ nBack > 1))
            => nBack' = nBack
       /\ nBack = 1 => nBack' >= 1]_vars

\* the first turn after a first block at level 1 that had more than 10
\* mistakes and kept the level
C8_Witness ==
  /\ isPlaying
  /\ totalTurns = BLOCK_SIZE + 1
  /\ blockTurnCount = 1
  /\ blockMistakes = 0
  /\ totalMistakes > 10
  /\ nBack = 1

\* C9: nBack is at least 1 in every reachable state: the block check and
\* the end of a timed session lower it only when it is above 1, and the
\* manual level change refuses a level below 1.
C9_NBackPositive == nBack >= 1

\* a timed session at level 1 that timed out with accuracy below 50% and
\* auto-progress on, and kept level 1
C9_Witness ==
  /\ ~isPlaying
  /\ autoProgress
  /\ nBack = 1
  /\ Len(savedHistory) = 1
  /\ savedHistory[1].accuracy < 50
  /\ savedHistory[1].maxNBack = 1

\* a step that starts a session
Starts == ~isPlaying /\ isPlaying'

\* C11: a successful start discards the progress of the previous session
\* and begins the first turn at once: right after it the session is
\* running, score, totalMistakes and blockMistakes are 0, hasResponded is
\* false, the history holds exactly the one new stimulus, totalTurns and
\* blockTurnCount are 1, the countdown shows the full configured duration,
\* and exactly one turn timer is pending.
C11_StartResets ==
  [][Starts =>
       /\ score' = 0
       /\ totalMistakes' = 0
       /\ blockMistakes' = 0
       /\ ~hasResponded'
       /\ Len(stimulusHistory') = 1
       /\ stimulusHistory'[1] = currentStimulus'
       /\ currentStimulus'.id = now'
       /\ totalTurns' = 1
       /\ blockTurnCount' = 1
       /\ timeLeftSeconds' = gameDurationSeconds'
       /\ Cardinality(timeouts') = 1
       /\ \A x \in timeouts' : x.id = timer' /\ x.delay = INTERVAL_MS]_vars

\* the first turn of a session started after a timed session that was
\* logged with a score and mistakes
C11_Witness ==
  /\ isPlaying
  /\ totalTurns = 1
  /\ score = 0
  /\ Len(savedHistory) = 1
  /\ savedHistory[1].score > 0
  /\ savedHistory[1].accuracy < 100

\* C12, as stated: in every reachable state in which perspective mode is on
\* and the perspective type is spatial, the active rules hold neither shape
\* nor size and are not empty.
C12_SpatialRulesSanitised ==
  (perspectiveMode /\ perspectiveType = "spatial")
    => (activeRules \cap {"shape", "size"} = {} /\ activeRules # {})

\* C13: stop cancels the turn timer and the countdown interval, makes the
\* session idle and appends no record to the history log; while idle no
\* callback is pending, and no step before the next start changes the
\* score, the counters, the history or nBack (no ghost turn).
C13_StopIsQuiet ==
  /\ [][Stop =>
          /\ ~isPlaying'
          /\ timeouts' = {}
          /\ intervals' = {}
          /\ gameTimerInterval' = Undefined
          /\ savedHistory' = savedHistory]_vars
  /\ [](~isPlaying => (timeouts = {} /\ intervals = {}))
  /\ [][(~isPlaying /\ ~isPlaying') =>
          UNCHANGED <<score, totalMistakes, blockMistakes, totalTurns,
                      blockTurnCount, stimulusHistory, nBack,
                      savedHistory>>]_vars

\* a timed session stopped in the middle of its countdown, after a response
C13_Witness ==
  /\ ~isPlaying
  /\ useTimer
  /\ hasResponded
  /\ totalTurns >= 2
  /\ timeLeftSeconds > 0
  /\ timeLeftSeconds < gameDurationSeconds
  /\ savedHistory = <<>>

\* the tick that takes the countdown to 0
TimesOut == CountdownTicks /\ timeLeftSeconds <= 1

\* C14: when the countdown reaches 0 the session ends by timeout: it becomes
\* idle, the turn timer and the countdown interval are cancelled (also a
\* pending 500 ms post-response timer), and exactly one record is appended
\* to the history log; the log changes at no other step, so a stopped
\* session and a session without the timer append nothing.
C14_TimeoutEndsSession ==
  /\ [][TimesOut =>
          /\ ~isPlaying'
          /\ timeLeftSeconds' = 0
          /\ timeouts' = {}
          /\ intervals' = {}
          /\ Len(savedHistory') = Len(savedHistory) + 1
          /\ SubSeq(savedHistory', 1, Len(savedHistory)) = savedHistory]_vars
  /\ [][savedHistory' # savedHistory =>
          (isPlaying /\ useTimer /\ TimesOut)]_vars

\* a session that timed out at the instant of a response, whose 500 ms
\* timer was pending, and was logged
C14_Witness ==
  /\ ~isPlaying
  /\ useTimer
  /\ timeLeftSeconds = 0
  /\ Len(savedHistory) = 1
  /\ hasResponded
  /\ now = currentStimulus.id + 3000
  /\ timeouts = {}

\* C15: at the end by timeout, with auto-progress on and totalTurns > 0,
\* nBack grows by 1 when (totalTurns - totalMistakes) / totalTurns >= 80%,
\* shrinks by 1 when it is below 50% and nBack > 1, and is unchanged
\* otherwise; with auto-progress off, and on stop, nBack is unchanged.
C15_TimeoutProgression ==
  /\ [][TimesOut =>
          IF autoProgress /\ totalTurns > 0
          THEN IF 5 * (totalTurns - totalMistakes) >= 4 * totalTurns
               THEN nBack' = nBack + 1
               ELSE IF 2 * (totalTurns - totalMistakes) < totalTurns
                       /\ nBack > 1
                    THEN nBack' = nBack - 1
                    ELSE nBack' = nBack
          ELSE nBack' = nBack]_vars
  /\ [][Stop => nBack' = nBack]_vars

\* two logged sessions: the first raised the level to 2, the second ended
\* below 50% and lowered it to 1
C15_Witness ==
  /\ ~isPlaying
  /\ nBack = 1
  /\ Len(savedHistory) = 2
  /\ savedHistory[1].maxNBack = 2
  /\ savedHistory[2].maxNBack = 1
  /\ savedHistory[2].accuracy < 50

\* C16: the history log never holds more than 20 records; the record of a
\* timed-out session is appended last, and appending to a log of 20 evicts
\* exactly the oldest record and keeps the others in their order.
C16_LogCappedFifo ==
  /\ [](Len(savedHistory) <= 20)
  /\ [][TimesOut =>
          LET n == Len(savedHistory)
          IN /\ IF n = 20
                THEN /\ Len(savedHistory') = 20
                     /\ \A i \in 1..19 : savedHistory'[i] = savedHistory[i + 1]
                ELSE /\ Len(savedHistory') = n + 1
                     /\ \A i \in 1..n : savedHistory'[i] = savedHistory[i]
             /\ savedHistory'[Len(savedHistory')].score = score
             /\ savedHistory'[Len(savedHistory')].activeRules = activeRules]_vars

\* a full log whose two newest records were logged since mount, a record
\* having been evicted for the last one at least
C16_Witness ==
  /\ Len(savedHistory) = 20
  /\ savedHistory[20].activeRules = {"color"}
  /\ savedHistory[19].activeRules = {"color"}
  /\ savedHistory[18] = EarlierRecords[1]
  /\ savedHistory[1] # savedHistory[2]

\* C17: at most one turn timer is live at any time, and it is the one the
\* variable timer holds: every operation that arms a turn timer (turn
\* advance, accepted response, start) leaves the earlier one cancelled or
\* fired.
C17_OneTurnTimer ==
  /\ Cardinality(timeouts) <= 1
  /\ \A x \in timeouts : x.id = timer

\* a response has replaced the turn timer by the 500 ms timer while the
\* countdown runs
C17_Witness ==
  /\ isPlaying
  /\ hasResponded
  /\ intervals # {}
  /\ Cardinality(timeouts) = 1
  /\ \A x \in timeouts : x.delay = RESPONSE_DELAY_MS /\ x.due > now

\* the countdown is armed at no step but a turn advance after which the
\* history is longer than nBack, and then at the full configured duration
ArmedWhenWarmUpEnds ==
  [][(intervals = {} /\ intervals' # {}) =>
       /\ TurnAdvances
       /\ useTimer
       /\ Len(stimulusHistory') > nBack'
       /\ timeLeftSeconds' = gameDurationSeconds
       /\ \A x \in intervals' :
            x.id = gameTimerInterval' /\ x.due = now' + TICK_MS]_vars

\* after every turn advance that leaves the history longer than nBack the
\* countdown is running
RunningAfterWarmUp ==
  [][(isPlaying' /\ stimulusHistory' # stimulusHistory /\ useTimer
      /\ Len(stimulusHistory') > nBack') => intervals' # {}]_vars

\* a running countdown is the same interval until the session ends, and
\* only its ticks change the time left
ArmedOncePerSession ==
  /\ [](Cardinality(intervals) <= 1)
  /\ [][intervals # {} =>
          /\ intervals' = {} => ~isPlaying'
          /\ intervals' # {} =>
               /\ {x.id : x \in intervals'} = {x.id : x \in intervals}
               /\ timeLeftSeconds' \in {timeLeftSeconds, timeLeftSeconds - 1}
               /\ timeLeftSeconds' # timeLeftSeconds => CountdownTicks]_vars

\* C18, as stated: with the timer on the countdown is not running while the
\* history is not longer than nBack; it is armed at the full duration on the
\* first turn advance after which the history is longer than nBack, and at
\* most once per session.
C18_CountdownArming_AsStated ==
  /\ []((isPlaying /\ useTimer /\ Len(stimulusHistory) <= nBack)
          => intervals = {})
  /\ ArmedWhenWarmUpEnds
  /\ RunningAfterWarmUp
  /\ ArmedOncePerSession

\* C18: with the timer on the countdown is not running from the start of a
\* session to the first turn advance after which the history is longer than
\* nBack; on that advance it is armed at the full configured duration, and
\* it is armed at
\* most once per session: later turns, responses and level changes neither
\* re-arm nor reset it (nor stop it, when a manual raise makes nBack reach
\* the length of the history again).
C18_CountdownArming ==
  /\ [](~isPlaying => intervals = {})
  /\ ArmedWhenWarmUpEnds
  /\ RunningAfterWarmUp
  /\ ArmedOncePerSession

\* the countdown was armed, at the full duration, by the third turn of a
\* session at level 2
C18_Witness ==
  /\ isPlaying
  /\ useTimer
  /\ nBack = 2
  /\ Len(stimulusHistory) = 3
  /\ now = currentStimulus.id
  /\ intervals # {}
  /\ timeLeftSeconds = gameDurationSeconds

\* m maps the values of the array d onto themselves, one to one, and leaves
\* none in place
IsDerangement(m, d) ==
  /\ DOMAIN m = Range(d)
  /\ Range(m) = Range(d)
  /\ \A v, w \in Range(d) : m[v] = m[w] => v = w
  /\ \A v \in Range(d) : m[v] # v

\* C19: a map returned by generateCyclicMapping for a domain of two or more
\* distinct values is a bijection of the domain onto itself without a fixed
\* point, and each of the four attribute mappings a game start builds is one
\* of its attribute's domain.
C19_MappingIsDerangement ==
  /\ (mappingCall.pc = "returned" /\ Len(mappingCall.values) >= 2) =>
       /\ IsDerangement(mappingCall.map, mappingCall.values)
       /\ mappingCall.map \in
            generateCyclicMapping(mappingCall.values,
                                  Shuffles(Len(mappingCall.values)))
  /\ (isPlaying /\ perspectiveMode) =>
       /\ DOMAIN perspectiveMapping = Range(ALL_ATTRIBUTES)
       /\ IsDerangement(perspectiveMapping.color, COLORS)
       /\ IsDerangement(perspectiveMapping.shape, SHAPES)
       /\ IsDerangement(perspectiveMapping.size, SIZES)
       /\ IsDerangement(perspectiveMapping.position, POSITIONS)

\* a call on COLORS returned the map red -> green -> blue -> red, beside a
\* game started with the opposite colour mapping
C19_Witness ==
  /\ mappingCall.pc = "returned"
  /\ mappingCall.values = COLORS
  /\ mappingCall.map["red"] = "green"
  /\ isPlaying
  /\ perspectiveMode
  /\ perspectiveMapping.color["red"] = "blue"
  /\ perspectiveMapping.position["left"] = "center"

\* C20: under the fair shuffle a call on a domain of two or more values
\* returns, and a call on a single-element domain never returns.
C20_LoopTermination ==
  /\ (Len(mappingCall.values) >= 2) ~> (mappingCall.pc = "returned")
  /\ [](Len(mappingCall.values) = 1 => mappingCall.pc = "loop")

\* a call on a domain of the longest length returned, its last shuffle
\* moving the first value to the last place
C20_Witness ==
  /\ mappingCall.pc = "returned"
  /\ Len(mappingCall.values) = MaxDomain
  /\ mappingCall.shuffled[MaxDomain] = mappingCall.values[1]

\* the stimuli of the history, and the attributes a rule can name
Shown == Range(stimulusHistory)
Rules == Range(ALL_ATTRIBUTES)

\* C21: getTransformedValue returns the raw value of the rule's attribute
\* when perspective mode is off, for either observer, and when the observer
\* is "me", in either perspective type, whatever the mapping holds.
C21_RawWhenOffOrMe ==
  \A stim \in Shown, rule \in Rules :
    (~perspectiveMode \/ stim.observerPos = "me") =>
      getTransformedValue(Cur, stim, rule) = stim[rule]

\* perspective mode is off, a mapping built by an earlier session is held,
\* and the history holds a stimulus seen from the opposite side
C21_Witness ==
  /\ isPlaying
  /\ ~perspectiveMode
  /\ perspectiveMapping # NoMapping
  /\ currentStimulus.observerPos = "opposite"
  /\ \E stim \in Shown : stim.observerPos = "me"

\* C22: in a session of symbolic perspective the value of a stimulus seen by
\* the "opposite" observer is the raw value passed once through the
\* session's mapping of the attribute, and differs from the raw value.
C22_SymbolicOpposite ==
  (isPlaying /\ perspectiveMode /\ perspectiveType = "symbolic") =>
    \A stim \in Shown, rule \in Rules :
      stim.observerPos = "opposite" =>
        /\ getTransformedValue(Cur, stim, rule)
             = perspectiveMapping[rule][stim[rule]]
        /\ getTransformedValue(Cur, stim, rule) # stim[rule]

\* a red stimulus at the left is seen from the opposite side in a
\* symbolic session
C22_Witness ==
  /\ isPlaying
  /\ perspectiveMode
  /\ perspectiveType = "symbolic"
  /\ currentStimulus.observerPos = "opposite"
  /\ currentStimulus.color = "red"
  /\ currentStimulus.position = "left"
  /\ getTransformedValue(Cur, currentStimulus, "color") = "blue"

\* C23: in spatial perspective the "opposite" observer sees the position
\* mirrored (left and right exchanged, the centre kept), the back colour
\* for the colour, and the raw shape and size.
C23_SpatialOpposite ==
  (perspectiveMode /\ perspectiveType = "spatial") =>
    \A stim \in Shown :
      stim.observerPos = "opposite" =>
        /\ getTransformedValue(Cur, stim, "position")
             = CASE stim.position = "left" -> "right"
                 [] stim.position = "right" -> "left"
                 [] stim.position = "center" -> "center"
        /\ getTransformedValue(Cur, stim, "color") = stim.backColor
        /\ getTransformedValue(Cur, stim, "shape") = stim.shape
        /\ getTransformedValue(Cur, stim, "size") = stim.size

\* a spatial session has shown, from the opposite side, stimuli at the
\* centre and at the left
C23_Witness ==
  /\ isPlaying
  /\ perspectiveMode
  /\ perspectiveType = "spatial"
  /\ currentStimulus.observerPos = "opposite"
  /\ currentStimulus.position = "center"
  /\ \E stim \in Shown :
       stim.observerPos = "opposite" /\ stim.position = "left"

\* C24: in spatial perspective under the "object" strategy a stimulus with
\* front red and back green and a stimulus with front green and back red
\* have equal transformed colours, whatever their observers.
C24_ObjectColourMatch ==
  (perspectiveMode /\ perspectiveType = "spatial") =>
    \A a, b \in Shown :
      (/\ a.color = "red" /\ a.backColor = "green"
       /\ b.color = "green" /\ b.backColor = "red") =>
        getTransformedValueObject(Cur, a, "color")
          = getTransformedValueObject(Cur, b, "color")

\* a spatial session showed red over green and then green over red, both
\* from the opposite side
C24_Witness ==
  /\ isPlaying
  /\ perspectiveMode
  /\ perspectiveType = "spatial"
  /\ Len(stimulusHistory) = 2
  /\ stimulusHistory[1].color = "red"
  /\ stimulusHistory[1].backColor = "green"
  /\ stimulusHistory[2].color = "green"
  /\ stimulusHistory[2].backColor = "red"
  /\ stimulusHistory[1].observerPos = "opposite"
  /\ stimulusHistory[2].observerPos = "opposite"

\* C25: every stimulus of the history has a back colour other than its
\* colour and a net of six faces, the third of them the colour and the
\* sixth the back colour (netColors[2] and netColors[5] of the script).
C25_StimulusWellFormed ==
  \A stim \in Shown :
    /\ stim.backColor # stim.color
    /\ DOMAIN stim.netColors = 1..6
    /\ stim.netColors[3] = stim.color
    /\ stim.netColors[6] = stim.backColor

\* a session showed a green stimulus and then a red one, free faces of
\* the net red
C25_Witness ==
  /\ isPlaying
  /\ Len(stimulusHistory) = 2
  /\ stimulusHistory[1].color = "green"
  /\ stimulusHistory[2].color = "red"
  /\ stimulusHistory[1].netColors[1] = "red"
  /\ stimulusHistory[1].netColors[3] = "green"

\* C26: the stroopText of a stimulus is never that of the stimulus
\* generated immediately before it.
C26_StroopTextNeverRepeats ==
  \A i \in 1..(Len(stimulusHistory) - 1) :
    stimulusHistory[i + 1].stroopText # stimulusHistory[i].stroopText

\* C27: within a session the history only grows: a turn advance appends one
\* stimulus, the current one, at the end; a response, a countdown tick
\* (the timeout included), a level change and a stop leave it as it is, and
\* a start replaces it by the first stimulus alone.  While a session runs
\* the history is as long as totalTurns.
C27_HistoryAppendOnly ==
  /\ [][(isPlaying /\ TurnTimerFires(CountdownProfile)) =>
          /\ stimulusHistory' = Append(stimulusHistory, currentStimulus')
          /\ totalTurns' = totalTurns + 1]_vars
  /\ [][(\/ Press(CountdownProfile)
         \/ CountdownTicks
         \/ LevelChange(CountdownProfile)
         \/ ToggleAutoProgress
         \/ Stop) => stimulusHistory' = stimulusHistory]_vars
  /\ [][stimulusHistory' # stimulusHistory =>
          \/ isPlaying /\ TurnTimerFires(CountdownProfile)
          \/ Starts /\ stimulusHistory' = <<currentStimulus'>>]_vars
  /\ [](isPlaying => Len(stimulusHistory) = totalTurns)

\* a session of four turns or more, its level changed by hand, has timed
\* out and its history is kept
C27_Witness ==
  /\ ~isPlaying
  /\ savedHistory # <<>>
  /\ Len(stimulusHistory) >= 4
  /\ totalTurns = Len(stimulusHistory)
  /\ nBack = 2
  /\ ~autoProgress

\* C28: an accepted response leaves one live turn timer, due 500 after the
\* response (the timer armed for the full interval is cancelled), and it
\* stays the only one, not overdue, until the turn advances or the session
\* ends; the advance happens when it is due, charges no miss for the
\* answered turn, and arms the next turn for the full interval again.
C28_ResponseShortensTurn ==
  /\ [][(Accepting /\ hasResponded') =>
          timeouts' = {[id |-> timer', delay |-> RESPONSE_DELAY_MS,
                        due |-> now' + RESPONSE_DELAY_MS]}]_vars
  /\ [][(hasResponded /\ TurnAdvances) =>
          /\ \E x \in timeouts :
               x.delay = RESPONSE_DELAY_MS /\ now' = x.due
          /\ score' = score
          /\ totalMistakes' = totalMistakes
          /\ blockMistakes' \in {blockMistakes, 0}
          /\ ~hasResponded'
          /\ timeouts' = {[id |-> timer', delay |-> INTERVAL_MS,
                           due |-> now' + INTERVAL_MS]}]_vars
  /\ []((isPlaying /\ hasResponded) =>
          \E x \in timeouts :
            /\ timeouts = {x}
            /\ x.id = timer
            /\ x.delay = RESPONSE_DELAY_MS
            /\ now <= x.due
            /\ x.due <= now + RESPONSE_DELAY_MS)

\* the turn that follows a response given 2500 after the stimulus began
\* 3000 after it, the penalty of the wrong response the only one charged
C28_Witness ==
  /\ isPlaying
  /\ ~hasResponded
  /\ totalTurns = 3
  /\ now = 3500 + 3000
  /\ currentStimulus.id = now
  /\ totalMistakes = 1
  /\ score = -5

\* C29: with the timer on, or with auto-progress off, no turn advance
\* changes nBack: an advance changes it only with auto-progress on and the
\* timer off.
C29_NoBlockProgression ==
  /\ [][(TurnAdvances /\ (useTimer \/ ~autoProgress)) => nBack' = nBack]_vars
  /\ [][(TurnAdvances /\ nBack' # nBack) =>
          (autoProgress /\ ~useTimer)]_vars

\* a timed session with auto-progress on has passed its twentieth turn
\* without a mistake, at the level it started with
C29_Witness ==
  /\ isPlaying
  /\ useTimer
  /\ autoProgress
  /\ totalTurns = BLOCK_SIZE + 1
  /\ totalMistakes = 0
  /\ nBack = 1

\* C30, as stated: the block counters are reset after every BLOCK_SIZE
\* turns, so blockTurnCount never exceeds BLOCK_SIZE, with the timer on or
\* off and auto-progress on or off.
C30_BlockCountBounded_AsStated == blockTurnCount <= BLOCK_SIZE

\* C30: the block counters are reset by the turn advance that finds
\* BLOCK_SIZE turns or more counted, with auto-progress on and the timer
\* off only, and by a manual level change; so after a turn advance with
\* auto-progress on and the timer off blockTurnCount is in 1..BLOCK_SIZE,
\* while with the timer on or auto-progress off every advance adds one to
\* it, up to totalTurns.
C30_BlockCountBounded ==
  /\ [][(TurnAdvances /\ autoProgress /\ ~useTimer) =>
          /\ blockTurnCount' \in 1..BLOCK_SIZE
          /\ blockTurnCount >= BLOCK_SIZE =>
               blockTurnCount' = 1 /\ blockMistakes' = 0
          /\ blockTurnCount < BLOCK_SIZE =>
               blockTurnCount' = blockTurnCount + 1]_vars
  /\ [][(TurnAdvances /\ (useTimer \/ ~autoProgress)) =>
          blockTurnCount' = blockTurnCount + 1]_vars
  /\ [][(LevelChange(ProgressProfile) /\ nBack' # nBack) =>
          blockTurnCount' = 0 /\ blockMistakes' = 0]_vars
  /\ [](blockTurnCount <= totalTurns)

\* an untimed session with auto-progress off has counted two turns more
\* than a block
C30_Witness ==
  /\ isPlaying
  /\ ~useTimer
  /\ ~autoProgress
  /\ nBack = 1
  /\ blockTurnCount = BLOCK_SIZE + 2

\* C31: a manual level change by +1 or -1 to a level of 1 or more sets nBack
\* to that level and the block counters to 0, and changes nothing else
\* (score, totalTurns, totalMistakes and the history among it); a change by
\* -1 at level 1 changes nothing.
C31_ManualLevelChange ==
  /\ [](\A delta \in {-1, 1} :
          LET r == manualLevelChange(Cur, delta)
          IN IF nBack + delta >= 1
             THEN r = [Cur EXCEPT !.nBack = nBack + delta,
                                  !.blockTurnCount = 0,
                                  !.blockMistakes = 0]
             ELSE r = Cur)
  /\ [][LevelChange(CountdownProfile) =>
          /\ nBack' \in {nBack - 1, nBack + 1}
          /\ nBack' >= 1
          /\ blockTurnCount' = 0
          /\ blockMistakes' = 0
          /\ score' = score
          /\ totalTurns' = totalTurns
          /\ totalMistakes' = totalMistakes
          /\ stimulusHistory' = stimulusHistory]_vars

\* the level of a running session was raised by hand after a turn with a
\* mistake: the block counters are 0, the session counters are not
C31_Witness ==
  /\ isPlaying
  /\ ~autoProgress
  /\ nBack = 2
  /\ blockTurnCount = 0
  /\ blockMistakes = 0
  /\ totalTurns = 3
  /\ totalMistakes = 1
  /\ score = -5

\* the mappings a start can install in the symbolic specification
SymbolicMappings == scramblePerspectiveRules(SymbolicProfile.shuffles)

\* C32: a step changes the perspective mapping only if it starts a session
\* with perspective mode on, and such a start installs a freshly scrambled
\* mapping; every step of a running session (turn advance, response,
\* countdown tick, level change, stop, timeout) leaves the mapping as it was
C32_MappingFixedPerSession ==
  /\ [][perspectiveMapping' # perspectiveMapping =>
          Starts /\ perspectiveMode]_vars
  /\ [][Starts /\ perspectiveMode =>
          perspectiveMapping' \in SymbolicMappings]_vars
  /\ [][isPlaying => perspectiveMapping' = perspectiveMapping]_vars

\* a symbolic session that was answered and timed out at level 2: the
\* mapping installed at its start is still there
C32_Witness ==
  /\ ~isPlaying
  /\ perspectiveMode
  /\ savedHistory # <<>>
  /\ nBack = 2
  /\ score # 0
  /\ perspectiveMapping.color["red"] = "blue"
  /\ perspectiveMapping.shape["cube"] = "sphere"

\* the action opposite to an action
Opposite(action) == IF action = "match" THEN "non_match" ELSE "match"

\* C33: with the control swap disabled no turn is swapped; on every turn the
\* left signal is handled as "match" and the right one as "non_match" when
\* the turn is not swapped, and the other way round when it is, so the two
\* signals denote opposite actions; isSwapped changes only when a turn
\* begins (at a start or a turn advance)
C33_ControlSwap ==
  /\ [](isPlaying /\ ~controlSwapEnabled => ~isSwapped)
  /\ [](isPlaying =>
          \A d \in SwapProfile.rts :
            LET t == currentStimulus.id + d
                left == IF isSwapped THEN "non_match" ELSE "match"
            IN /\ handlePhysicalSide(Cur, "left", t)
                    = handleInput(Cur, left, t)
               /\ handlePhysicalSide(Cur, "right", t)
                    = handleInput(Cur, Opposite(left), t))
  /\ [][isSwapped' # isSwapped => Starts \/ TurnAdvances]_vars

\* a swapped turn of a running session was answered correctly
C33_Witness ==
  /\ isPlaying
  /\ controlSwapEnabled
  /\ isSwapped
  /\ hasResponded
  /\ score > 0

\* the session is one of spatial perspective
SpatialSession ==
  isPlaying /\ perspectiveMode /\ perspectiveType = "spatial"

\* C34: a start leaves the active rules sanitised and a running session
\* never changes them; on every turn the rule under test is one of them,
\* and in a session of spatial perspective it is color or position
C34_RuleUnderTest ==
  /\ [][Starts => activeRules' = sanitizeRules(Cur).activeRules]_vars
  /\ [][isPlaying => activeRules' = activeRules]_vars
  /\ [](isPlaying => currentRule \in activeRules)
  /\ [](SpatialSession =>
          /\ activeRules \subseteq {"color", "position"}
          /\ currentRule \in {"color", "position"})

\* the second turn of a spatial session under the rule position
C34_Witness ==
  /\ SpatialSession
  /\ totalTurns = 2
  /\ activeRules = {"color", "position"}
  /\ currentRule = "position"

\* C35: the mistakes of a session never exceed its turns, so the accuracy
\* of the session, as endGame and saveHistory compute it, and the accuracy
\* of every saved record lie between 0 and 100
C35_MistakesWithinTurns ==
  /\ 0 <= totalMistakes
  /\ totalMistakes <= totalTurns
  /\ totalTurns > 0 => RoundedAccuracy(totalTurns, totalMistakes) \in 0..100
  /\ \A i \in DOMAIN savedHistory : savedHistory[i].accuracy \in 0..100

\* a session timed out after four turns of which the three judgable ones
\* were each charged a mistake
C35_Witness ==
  /\ ~isPlaying
  /\ savedHistory # <<>>
  /\ totalTurns = 4
  /\ totalMistakes = 3
  /\ savedHistory[1].accuracy = 25

\* C36: the mistakes of a block never exceed its turns, so the accuracy
\* the progression check computes from them is never negative
C36_BlockMistakesWithinTurns ==
  /\ blockMistakes <= blockTurnCount
  /\ blockTurnCount > 0 => AccuracyAtLeast(blockTurnCount, blockMistakes, 0)

\* the record the session's end has appended to the history
SavedRecord == savedHistory'[Len(savedHistory')]

\* C37: a timeout leaves score, totalMistakes and blockMistakes as they were
\* before the final tick, whether or not the turn in progress was judgable
\* and unanswered, and the record it saves carries that score and the
\* accuracy computed from those counters
C37_TimeoutChargesNoMiss ==
  [][TimesOut =>
       /\ ~isPlaying'
       /\ score' = score
       /\ totalMistakes' = totalMistakes
       /\ blockMistakes' = blockMistakes
       /\ totalTurns' = totalTurns
       /\ Len(savedHistory') = Len(savedHistory) + 1
       /\ SavedRecord.score = score
       /\ SavedRecord.accuracy = RoundedAccuracy(totalTurns, totalMistakes)]_vars

\* a session timed out in a judgable, unanswered turn without any mistake
\* and was saved with an accuracy of 100
C37_Witness ==
  /\ ~isPlaying
  /\ savedHistory # <<>>
  /\ Len(stimulusHistory) > nBack
  /\ ~hasResponded
  /\ totalTurns = 4
  /\ totalMistakes = 0
  /\ blockMistakes = 0
  /\ savedHistory[Len(savedHistory)].accuracy = 100

\* C38: the level stored in the record of a timed-out session is the level
\* after the end-of-session progression: one above the level played when
\* the session levelled up, one below when it levelled down
C38_RecordHoldsLevelAfterProgression ==
  [][TimesOut =>
       /\ SavedRecord.maxNBack = nBack'
       /\ (autoProgress /\ AccuracyAtLeast(totalTurns, totalMistakes, 80)
             => SavedRecord.maxNBack = nBack + 1)
       /\ (autoProgress /\ nBack > 1
              /\ ~AccuracyAtLeast(totalTurns, totalMistakes, 50)
             => SavedRecord.maxNBack = nBack - 1)]_vars

\* a session played at level 1 was saved with level 2, and the next one,
\* played at level 2, with level 1
C38_Witness ==
  /\ ~isPlaying
  /\ Len(savedHistory) = 2
  /\ savedHistory[1].maxNBack = 2
  /\ savedHistory[2].maxNBack = 1
  /\ nBack = 1

\* C39: with the timer on, a positive duration and no manual level change,
\* every started session returns to idle if armed timers eventually fire:
\* the turn timer is armed while the session runs, so the countdown is
\* eventually armed; every tick lowers timeLeftSeconds by exactly 1, within
\* 0 .. gameDurationSeconds, and the session ends on the tick that brings
\* it to 0
C39_SessionTerminates ==
  /\ [](useTimer /\ gameDurationSeconds > 0)
  /\ [](isPlaying => \E x \in timeouts : x.id = timer)
  /\ isPlaying ~> (intervals # {} \/ ~isPlaying)
  /\ [](timeLeftSeconds \in 0..gameDurationSeconds)
  /\ [][CountdownTicks =>
          /\ timeLeftSeconds' = timeLeftSeconds - 1
          /\ timeLeftSeconds' = 0 <=> ~isPlaying']_vars
  /\ isPlaying ~> ~isPlaying

\* a session that nobody stopped was ended by the countdown
C39_Witness ==
  /\ ~isPlaying
  /\ timeLeftSeconds = 0
  /\ Len(savedHistory) = 1
  /\ totalTurns = 4

\* the current and the target stimulus have the same raw value for the rule
\* under test and are seen by different observers
SameRawOtherObserver ==
  LET n == Len(stimulusHistory)
      cur == stimulusHistory[n]
      target == stimulusHistory[n - nBack]
  IN /\ cur[currentRule] = target[currentRule]
     /\ cur.observerPos # target.observerPos

\* C40: in a symbolic session, when the current and the target stimulus
\* have the same raw value for the rule under test and different observers,
\* the ground truth is non-match: the response "match" is scored incorrect
\* and the response "non_match" correct
C40_SameRawOtherObserverIsNonMatch ==
  /\ []((Accepting /\ perspectiveMode /\ perspectiveType = "symbolic"
         /\ SameRawOtherObserver) => ~IsMatchNow)
  /\ [][(Accepting /\ perspectiveMode /\ perspectiveType = "symbolic"
         /\ SameRawOtherObserver) =>
          /\ Input(JudgeProfile, "match") =>
               /\ score' = score - 5
               /\ totalMistakes' = totalMistakes + 1
               /\ blockMistakes' = blockMistakes + 1
          /\ Input(JudgeProfile, "non_match") =>
               /\ score' >= score + 10 + 5 * nBack
               /\ UNCHANGED <<totalMistakes, blockMistakes>>]_vars

\* a red stimulus seen from the opposite side after a red one seen by the
\* user, under the rule color, answered "non_match" and scored correct
C40_Witness ==
  /\ isPlaying
  /\ perspectiveMode
  /\ perspectiveType = "symbolic"
  /\ nBack = 1
  /\ Len(stimulusHistory) = 2
  /\ currentRule = "color"
  /\ stimulusHistory[1].color = "red"
  /\ stimulusHistory[1].observerPos = "me"
  /\ stimulusHistory[2].color = "red"
  /\ stimulusHistory[2].observerPos = "opposite"
  /\ hasResponded
  /\ score > 0
  /\ totalMistakes = 0

====
